---- MODULE Spec2Model ----
(***************************************************************************)
(* Matchlog: fixture aggregation cache (src/lib/sportsdb.ts), watched-event *)
(* store and preference store (src/lib/db.ts) and their route handlers.     *)
(*                                                                          *)
(* Conventions.  A nullable string of the source is a string, null being    *)
(* the sentinel Null; a nullable number is an integer, null being NullNum.  *)
(* Calendar dates are the 'YYYY-MM-DD' strings the code handles; DayOf and  *)
(* ISODate convert between them and day numbers since 1970-01-01 (UTC).     *)
(* Time is Date.now() in milliseconds.                                      *)
(***************************************************************************)
EXTENDS Integers, Sequences, FiniteSets, TLC

VARIABLES
  now,          \* Date.now(), ms since the epoch
  cache,        \* sportsdb.ts `cache`: date -> entry
  pc,           \* per in-flight fetchEventsByDate call: "idle" | "fetching" | "done"
  reqDate,      \* the `date` argument of the call
  ttl,          \* the call's local `ttl`
  issued,       \* per call: leagues for which fetch() was called
  upstream,     \* per call: whether the fetches it awaits have settled
  outcome,      \* per call: what the promise of fetchEventsByDate settled to
  seen,         \* history: what the call found in the cache when it started
  stored,       \* history: expiresAt of the entry the call wrote with cache.set (0: none)
  ticks,        \* history: number of clock steps taken
  watched_events,    \* table watched_events: set of rows
  watched_events_id_seq,  \* last value of the bigserial sequence of watched_events.id
  user_preferences,  \* table user_preferences: set of rows
  puts,         \* PUT /api/preferences requests: sent, then handled
  ret,          \* what the last store call or route handler returned
  actor,        \* the user identity a session acts with
  matches,      \* table matches: set of rows
  gets,         \* per fetchEventsByDate call: the GET /api/events handler awaiting it
  page,         \* the web page mounted in the browser: "none" | "fixtures" | "watched"
  loaded,       \* the page has received and applied its first load
  selectedDate, \* fixtures page: useState selectedDate
  leagues,      \* fixtures page: useState leagues, as the set of fixtures in its groups
  loads,        \* fixtures page: the loadEvents calls awaiting their fetch, oldest first
  watchedIds,   \* fixtures page: useState watchedIds
  stats,        \* fixtures page: useState stats
  shownEvents,  \* watched page: useState events
  error,        \* useState error of the mounted page
  pendingIds,   \* useState pendingIds of the mounted page
  calls,        \* per fixture: the toggleWatched / unwatchEvent call awaiting its fetch
  applied,      \* mobile fixtures screen: the preferences applied to its state
  asyncStorage, \* mobile: the item under STORAGE_KEYS.PREFERENCES
  updates,      \* mobile: the preference toggles awaiting their PUT
  confirmed,    \* history: the document of the last successful response the mobile client got
  raw,          \* the upstream record handed to normalizeEvent on its own
  normalized,   \* what that call of normalizeEvent returned
  sessions      \* table sessions: set of rows

cacheVars == <<cache, pc, reqDate, ttl, issued, upstream, outcome, seen, stored>>

storeVars == <<watched_events, watched_events_id_seq, user_preferences, puts, ret, actor>>

routeVars == <<matches, gets>>

clientVars ==
  <<page, loaded, selectedDate, watchedIds, stats, shownEvents, error, pendingIds, calls>>

mobileVars == <<applied, asyncStorage, updates, confirmed>>

unitVars == <<raw, normalized>>

loadVars == <<leagues, loads>>

authVars == <<sessions>>

\* what the library functions leave alone: the routes' and the clients'
\* state, and the functions called on their own
appVars == <<routeVars, clientVars, mobileVars, unitVars, loadVars, authVars>>

vars ==
  <<now, ticks, cacheVars, storeVars, routeVars, clientVars, mobileVars, unitVars, loadVars,
    authVars>>

(***************************************************************************)
(* Bounds                                                                   *)
(***************************************************************************)
MaxCalls == 2
MaxTicks == 1
MaxSeq == 3
MaxPuts == 2
MaxLoads == 2

Calls == 1..MaxCalls

(***************************************************************************)
(* Program constants                                                        *)
(***************************************************************************)
Null == "<null>"
NullNum == -1
NaN == -2

CACHE_TTL_MS == 5 * 60 * 1000
TODAY_TTL_MS == 30 * 1000
MS_PER_DAY == 24 * 60 * 60 * 1000

FEATURED_LEAGUES == <<"4328", "4335", "4332", "4331", "4334", "4339", "4480">>

Leagues == {FEATURED_LEAGUES[i] : i \in 1..Len(FEATURED_LEAGUES)}

LeagueName(id) ==
  CASE id = "4328" -> "English Premier League"
    [] id = "4335" -> "Spanish La Liga"
    [] id = "4332" -> "Italian Serie A"
    [] id = "4331" -> "German Bundesliga"
    [] id = "4334" -> "French Ligue 1"
    [] id = "4339" -> "Turkish Super Lig"
    [] id = "4480" -> "UEFA Champions League"

LeagueBadge(id) ==
  CASE id = "4328" -> "gasy9d1737743125.png"
    [] id = "4335" -> "ja4it51687628717.png"
    [] id = "4332" -> "67q3q21679951383.png"
    [] id = "4331" -> "teqh1b1679952008.png"
    [] id = "4334" -> "9f7z9d1742983155.png"
    [] id = "4339" -> "h7xx231601671132.png"
    [] id = "4480" -> "facv1u1742998896.png"

(***************************************************************************)
(* Calendar: the two days around the midnight the model crosses             *)
(* (Sunday 1970-01-04 -> Monday 1970-01-05, UTC).                           *)
(***************************************************************************)
Sunday == "1970-01-04"
Monday == "1970-01-05"
Dates == {Sunday, Monday}

\* the strings a `date` parameter can be a cache key with: the dates and a
\* string of the shape YYYY-MM-DD that names no day
Month13 == "1970-13-45"
CacheKeys == Dates \cup {Month13}

ISODate(day) ==
  CASE day = -3 -> "1969-12-29"
    [] day = 0 -> "1970-01-01"
    [] day = 2 -> "1970-01-03"
    [] day = 3 -> Sunday
    [] day = 4 -> Monday
    [] day = 5 -> "1970-01-06"

DayOf(str) ==
  CASE str = "1969-12-29" -> -3
    [] str = "1970-01-01" -> 0
    [] str = "1970-01-03" -> 2
    [] str = Sunday -> 3
    [] str = Monday -> 4
    [] str = "1970-01-06" -> 5

\* new Date().toISOString().split('T')[0]
TodayISO(t) == ISODate(t \div MS_PER_DAY)

StartTime == 4 * MS_PER_DAY - TODAY_TTL_MS
TickSteps == {CACHE_TTL_MS}

(***************************************************************************)
(* Upstream feed: raw SportsDbEvent records and the HTTP responses of       *)
(* eventsday.php, per date, league and feed version (scores move on).       *)
(***************************************************************************)
Versions == {0, 1}
FailStatuses == {500}

SportsDbEvent(idEvent, idLeague, strLeague, home, away, hs, as, dateEvent, strTime) ==
  [idEvent |-> idEvent, idLeague |-> idLeague, strLeague |-> strLeague,
   strHomeTeam |-> home, strAwayTeam |-> away,
   intHomeScore |-> hs, intAwayScore |-> as,
   dateEvent |-> dateEvent, strTime |-> strTime]

\* SportsDbResponse.events; NullEvents is `events: null`
NullEvents == [isNull |-> TRUE, events |-> <<>>]
Events(seq) == [isNull |-> FALSE, events |-> seq]

UpstreamBody(date, league, v) ==
  CASE league = "4328" /\ date = Monday ->
         Events(<<SportsDbEvent("e1", "4328", "English Premier League", "Arsenal", "Chelsea",
                                IF v = 0 THEN Null ELSE "1", IF v = 0 THEN Null ELSE "0",
                                Monday, "15:00:00"),
                  SportsDbEvent("e5", "4328", "English Premier League", "Everton", "Fulham",
                                Null, Null, Monday, "12:30:00")>>)
    [] league = "4328" /\ date = Sunday ->
         Events(<<SportsDbEvent("e0", "4328", "English Premier League", "Liverpool", "Everton",
                                "2", "2", Sunday, "12:30:00")>>)
    [] league = "4335" -> NullEvents
    [] league = "4332" /\ date = Monday ->
         Events(<<SportsDbEvent("e2", "", Null, Null, Null, Null, Null, Monday, Null),
                  SportsDbEvent("e3", "4332", "Italian Serie A", "Roma", "Lazio",
                                Null, Null, Null, "20:45:00")>>)
    [] league = "4480" /\ date = Monday ->
         Events(<<SportsDbEvent("e4", "4346", "UEFA Champions League", "Porto", "PSV",
                                IF v = 0 THEN Null ELSE "2", IF v = 0 THEN Null ELSE "1",
                                Monday, "11:00:00")>>)
    [] OTHER -> Events(<<>>)

OkResponse(body) == [ok |-> TRUE, status |-> 200, body |-> body]
FailResponse(status) == [ok |-> FALSE, status |-> status, body |-> NullEvents]

\* The responses one fan-out for `date` can settle with: every league
\* answers at some feed version, except the leagues of one of FailingSets,
\* which answer with a non-success status.
FailingSets == {{}} \cup {{l} : l \in Leagues} \cup {{"4328", "4480"}}

StatusOf(l, s) == IF l = "4480" THEN 503 ELSE s

ResponseVectors(date) ==
  { [l \in Leagues |-> IF l \in F THEN FailResponse(StatusOf(l, s))
                       ELSE OkResponse(UpstreamBody(date, l, v))] :
      F \in FailingSets, v \in Versions, s \in FailStatuses }

(***************************************************************************)
(* sportsdb.ts                                                              *)
(***************************************************************************)
\* JavaScript truthiness of a nullable string
Truthy(s) == s # Null /\ s # ""

\* Number(str) for the score strings of the feed
Number(s) ==
  CASE s = "0" -> 0
    [] s = "1" -> 1
    [] s = "2" -> 2
    [] s = "" -> 0
    [] OTHER -> NaN

\* the null normalizeEvent returns for a record it drops
Dropped == [dropped |-> TRUE]

normalizeEvent_NullOnlyDrops(event, league) ==
  IF event.idEvent = Null \/ event.dateEvent = Null
  THEN Dropped
  ELSE [eventId |-> event.idEvent,
        leagueId |-> IF Truthy(event.idLeague) THEN event.idLeague ELSE league,
        leagueName |-> IF event.strLeague # Null THEN event.strLeague ELSE LeagueName(league),
        leagueBadge |-> LeagueBadge(league),
        date |-> event.dateEvent,
        time |-> IF event.strTime # Null THEN event.strTime ELSE "",
        homeTeam |-> IF event.strHomeTeam # Null THEN event.strHomeTeam ELSE "TBD",
        awayTeam |-> IF event.strAwayTeam # Null THEN event.strAwayTeam ELSE "TBD",
        homeScore |-> IF event.intHomeScore = Null THEN NullNum ELSE Number(event.intHomeScore),
        awayScore |-> IF event.intAwayScore = Null THEN NullNum ELSE Number(event.intAwayScore)]

normalizeEvent(event, league) ==
  IF ~Truthy(event.idEvent) \/ ~Truthy(event.dateEvent)
  THEN Dropped
  ELSE [eventId |-> event.idEvent,
        leagueId |-> IF Truthy(event.idLeague) THEN event.idLeague ELSE league,
        leagueName |-> IF event.strLeague # Null THEN event.strLeague ELSE LeagueName(league),
        leagueBadge |-> LeagueBadge(league),
        date |-> event.dateEvent,
        time |-> IF event.strTime # Null THEN event.strTime ELSE "",
        homeTeam |-> IF event.strHomeTeam # Null THEN event.strHomeTeam ELSE "TBD",
        awayTeam |-> IF event.strAwayTeam # Null THEN event.strAwayTeam ELSE "TBD",
        homeScore |-> IF event.intHomeScore = Null THEN NullNum ELSE Number(event.intHomeScore),
        awayScore |-> IF event.intAwayScore = Null THEN NullNum ELSE Number(event.intAwayScore)]

Map(seq, F(_)) == [i \in 1..Len(seq) |-> F(seq[i])]

\* raw SportsDbEvent records as the feed sends them: an absent field is
\* null, an identity field may also be empty, a score is a decimal string
RawRecords ==
  { SportsDbEvent(idEvent, idLeague, strLeague, home, away, hs, as, dateEvent, strTime) :
      idEvent \in {Null, "", "e1"}, idLeague \in {"", "4328"},
      strLeague \in {Null, "English Premier League"},
      home \in {Null, "Arsenal"}, away \in {Null, "Chelsea"},
      hs \in {Null, "0", "2"}, as \in {Null, "1"},
      dateEvent \in {Null, "", Monday}, strTime \in {Null, "", "15:00:00"} }

\* no record is under test
NoRecord == SportsDbEvent(Null, Null, Null, Null, Null, Null, Null, Null, Null)

\* normalizeEvent has not been called
NotCalled == [called |-> FALSE]

\* normalizeEvent(event, league) called on its own with the record `raw`
normalizeEventCall(league) ==
  /\ raw # NoRecord
  /\ normalized = NotCalled
  /\ normalized' = normalizeEvent(raw, league)
  /\ UNCHANGED raw
  /\ UNCHANGED <<now, ticks, cacheVars, storeVars, routeVars, clientVars, mobileVars>>
  /\ UNCHANGED <<loadVars, authVars>>

\* Boolean(event)
IsKept(e) == e # Dropped

\* fetchLeagueEvents once fetch() has answered with `res`: the thrown
\* Error, or the normalized events of the league
Thrown(status) == [threw |-> TRUE, status |-> status, events |-> <<>>]
Returned(events) == [threw |-> FALSE, status |-> 0, events |-> events]

fetchLeagueEvents_EmptyOnFailure(res, league) ==
  LET normalize(e) == normalizeEvent(e, league)
  IN  Returned(SelectSeq(Map(res.body.events, normalize), IsKept))

fetchLeagueEvents(res, league) ==
  IF ~res.ok
  THEN Thrown(res.status)
  ELSE LET normalize(e) == normalizeEvent(e, league)
       IN  Returned(SelectSeq(Map(res.body.events, normalize), IsKept))

RECURSIVE FlatFrom(_, _)
FlatFrom(byLeague, i) ==
  IF i > Len(FEATURED_LEAGUES) THEN <<>>
  ELSE byLeague[FEATURED_LEAGUES[i]].events \o FlatFrom(byLeague, i + 1)

\* eventsByLeague.flat()
Flat(byLeague) == FlatFrom(byLeague, 1)

PromiseAll_BestEffort(rs) ==
  LET byLeague == [l \in Leagues |-> fetchLeagueEvents(rs[l], l)]
  IN  {[rejected |-> FALSE, status |-> 0, value |-> Flat(byLeague)]}

\* await Promise.all(FEATURED_LEAGUES.map(fetchLeagueEvents)): the set of
\* ways the awaited promise can settle for the responses `rs`; it rejects
\* with the error of whichever failing league settles first.
PromiseAll(rs) ==
  LET byLeague == [l \in Leagues |-> fetchLeagueEvents(rs[l], l)]
      failing == {l \in Leagues : byLeague[l].threw}
  IN  IF failing = {}
      THEN {[rejected |-> FALSE, status |-> 0, value |-> Flat(byLeague)]}
      ELSE {[rejected |-> TRUE, status |-> byLeague[l].status, value |-> <<>>] : l \in failing}

\* every way a fan-out for a date can end: the responses and what the
\* awaited promise settles to
Settlements ==
  [d \in CacheKeys |-> UNION { {[responses |-> rs, settle |-> st] : st \in PromiseAll(rs)} :
                            rs \in ResponseVectors(d) }]

SettleResults == [d \in CacheKeys |-> {s.settle : s \in Settlements[d]}]

NoEntry == [present |-> FALSE, expiresAt |-> 0, data |-> <<>>]
Entry(expiresAt, data) == [present |-> TRUE, expiresAt |-> expiresAt, data |-> data]

TtlFor_Swapped(date, t) == IF date = TodayISO(t) THEN CACHE_TTL_MS ELSE TODAY_TTL_MS

\* const ttl = isToday ? 30 * 1000 : CACHE_TTL_MS
TtlFor(date, t) == IF date = TodayISO(t) THEN TODAY_TTL_MS ELSE CACHE_TTL_MS

IsFresh_Reversed(cached, t) == cached.present /\ cached.expiresAt < t

IsFresh_IgnoresExpiry(cached, t) == cached.present

\* cached && cached.expiresAt > Date.now()
IsFresh(cached, t) == cached.present /\ cached.expiresAt > t

NoOutcome == [kind |-> "none", status |-> 0, data |-> <<>>]
Resolved(data) == [kind |-> "ok", status |-> 0, data |-> data]
Rejected(status) == [kind |-> "error", status |-> status, data |-> <<>>]

\* what a starting call finds under cache.get(date), and the date it
\* takes for today while it still has to choose the expiry
Seen(cached, t) ==
  [state |-> IF ~cached.present THEN "absent"
             ELSE IF cached.expiresAt > t THEN "fresh" ELSE "expired",
   today |-> IF cached.present /\ cached.expiresAt > t THEN "" ELSE TodayISO(t)]

\* the GET /api/events handler awaiting a call (userId Null: none, the call
\* was made directly)
NoGet == [userId |-> Null, request |-> [date |-> Null, leagueOrder |-> <<>>]]

\* fetchEventsByDate(date), up to its return on a cache hit or its await of
\* the fan-out on a miss: what it does to the module's state
fetchEventsByDateCall(c, date) ==
  /\ pc[c] \in {"idle", "done"}
  /\ LET cached == cache[date]
     IN  /\ reqDate' = [reqDate EXCEPT ![c] = date]
         /\ seen' = [seen EXCEPT ![c] = Seen(cached, now)]
         /\ stored' = [stored EXCEPT ![c] = 0]
         /\ IF IsFresh(cached, now)
            THEN /\ pc' = [pc EXCEPT ![c] = "done"]
                 /\ outcome' = [outcome EXCEPT ![c] = Resolved(cached.data)]
                 /\ issued' = [issued EXCEPT ![c] = {}]
                 /\ ttl' = [ttl EXCEPT ![c] = 0]
                 /\ UNCHANGED upstream
            ELSE /\ pc' = [pc EXCEPT ![c] = "fetching"]
                 /\ outcome' = [outcome EXCEPT ![c] = NoOutcome]
                 /\ issued' = [issued EXCEPT ![c] = Leagues]
                 /\ ttl' = [ttl EXCEPT ![c] = TtlFor(date, now)]
                 /\ upstream' = [upstream EXCEPT ![c] = "pending"]
  /\ UNCHANGED cache

\* fetchEventsByDate called directly
fetchEventsByDate(c, date) ==
  /\ fetchEventsByDateCall(c, date)
  /\ UNCHANGED <<now, ticks>>
  /\ UNCHANGED storeVars
  /\ UNCHANGED appVars

\* TheSportsDB has answered enough of the fetches of the call for the
\* awaited Promise.all to settle: all of them, or one with a failure.
\* Nothing in the code bounds the time this takes.
TheSportsDbAnswers(c) ==
  /\ upstream[c] = "pending"
  /\ upstream' = [upstream EXCEPT ![c] = "settled"]
  /\ UNCHANGED <<now, ticks, cache, pc, reqDate, ttl, issued, outcome, seen, stored>>
  /\ UNCHANGED storeVars
  /\ UNCHANGED appVars

fetchEventsByDateReturn_PatchesEntry(c, settle) ==
  /\ pc[c] = "fetching"
  /\ upstream[c] = "settled"
  /\ settle \in SettleResults[reqDate[c]]
  /\ pc' = [pc EXCEPT ![c] = "done"]
  /\ ttl' = [ttl EXCEPT ![c] = 0]
  /\ upstream' = [upstream EXCEPT ![c] = "none"]
  /\ IF settle.rejected
     THEN /\ outcome' = [outcome EXCEPT ![c] = Rejected(settle.status)]
          /\ UNCHANGED <<cache, stored>>
     ELSE /\ cache' = [cache EXCEPT ![reqDate[c]] =
                         Entry(now + ttl[c],
                               IF settle.value = <<>> \/ cache[reqDate[c]].data = <<>>
                               THEN settle.value
                               ELSE <<settle.value[1]>> \o Tail(cache[reqDate[c]].data))]
          /\ stored' = [stored EXCEPT ![c] = now + ttl[c]]
          /\ outcome' = [outcome EXCEPT ![c] = Resolved(settle.value)]
  /\ seen' = [seen EXCEPT ![c].today = ""]
  /\ UNCHANGED <<reqDate, issued>>

\* fetchEventsByDate resumed after the await with what Promise.all settled
\* to: throw, or flatten, cache.set and return.  The local ttl is dead once
\* the call has returned.
fetchEventsByDateReturn(c, settle) ==
  /\ pc[c] = "fetching"
  /\ upstream[c] = "settled"
  /\ settle \in SettleResults[reqDate[c]]
  /\ pc' = [pc EXCEPT ![c] = "done"]
  /\ ttl' = [ttl EXCEPT ![c] = 0]
  /\ upstream' = [upstream EXCEPT ![c] = "none"]
  /\ IF settle.rejected
     THEN /\ outcome' = [outcome EXCEPT ![c] = Rejected(settle.status)]
          /\ UNCHANGED <<cache, stored>>
     ELSE /\ cache' = [cache EXCEPT ![reqDate[c]] = Entry(now + ttl[c], settle.value)]
          /\ stored' = [stored EXCEPT ![c] = now + ttl[c]]
          /\ outcome' = [outcome EXCEPT ![c] = Resolved(settle.value)]
  /\ seen' = [seen EXCEPT ![c].today = ""]
  /\ UNCHANGED <<reqDate, issued>>

\* the resumption of a direct call
fetchEventsByDateResume(c, settle) ==
  /\ gets[c] = NoGet
  /\ fetchEventsByDateReturn(c, settle)
  /\ UNCHANGED <<now, ticks>>
  /\ UNCHANGED storeVars
  /\ UNCHANGED appVars

\* the clock
Tick(step) ==
  /\ ticks < MaxTicks
  /\ now' = now + step
  /\ ticks' = ticks + 1
  /\ UNCHANGED cacheVars
  /\ UNCHANGED appVars
  /\ UNCHANGED storeVars

InitCache ==
  /\ now = StartTime
  /\ ticks = 0
  /\ cache = [d \in CacheKeys |-> NoEntry]
  /\ pc = [c \in Calls |-> "idle"]
  /\ reqDate = [c \in Calls |-> Sunday]
  /\ ttl = [c \in Calls |-> 0]
  /\ issued = [c \in Calls |-> {}]
  /\ upstream = [c \in Calls |-> "none"]
  /\ outcome = [c \in Calls |-> NoOutcome]
  /\ seen = [c \in Calls |-> [state |-> "absent", today |-> ""]]
  /\ stored = [c \in Calls |-> 0]

NextCache ==
  \/ \E c \in Calls, d \in Dates : fetchEventsByDate(c, d)
  \/ \E c \in Calls : TheSportsDbAnswers(c)
  \/ \E c \in Calls : \E settle \in SettleResults[reqDate[c]] :
       fetchEventsByDateResume(c, settle)
  \/ \E step \in TickSteps : Tick(step)

(***************************************************************************)
(* Properties of the fixture cache                                          *)
(***************************************************************************)
\* call c1 is a finished fetchEventsByDate(d) that succeeded by a fan-out
\* and stored an entry
StoredFor(c1, d) ==
  /\ pc[c1] = "done" /\ reqDate[c1] = d
  /\ outcome[c1].kind = "ok" /\ stored[c1] > 0

\* C1 as claimed: whenever fetchEventsByDate(d) has succeeded and stored an
\* entry, a later call for d made while now < that entry's expiresAt returns
\* the same fixture list as that first call and issues no upstream fetch.
C1_RepeatReturnsFirstList ==
  [][\A c2 \in Calls, c1 \in Calls, d \in Dates :
       (c1 # c2 /\ StoredFor(c1, d) /\ now < stored[c1] /\ fetchEventsByDate(c2, d))
         => (pc'[c2] = "done" /\ outcome'[c2] = outcome[c1] /\ issued'[c2] = {})]_vars

\* C1 amended: the same, provided the entry the first call stored is still
\* the map's entry for d when the second call is made (no other fan-out for
\* d has overwritten it in between).
C1_RepeatServesStoredEntry ==
  [][\A c2 \in Calls, c1 \in Calls, d \in Dates :
       (/\ c1 # c2 /\ StoredFor(c1, d) /\ now < stored[c1]
        /\ cache[d] = Entry(stored[c1], outcome[c1].data)
        /\ fetchEventsByDate(c2, d))
         => (pc'[c2] = "done" /\ outcome'[c2] = outcome[c1] /\ issued'[c2] = {})]_vars

\* a second call was served the entry a first call stored, within its window
C1_Witness ==
  \E c1 \in Calls, c2 \in Calls :
    /\ c1 # c2 /\ StoredFor(c1, reqDate[c2]) /\ now < stored[c1]
    /\ pc[c2] = "done" /\ seen[c2].state = "fresh" /\ issued[c2] = {}
    /\ outcome[c2] = outcome[c1] /\ Len(outcome[c2].data) > 0
    /\ cache[reqDate[c2]] = Entry(stored[c1], outcome[c1].data)

\* C2: when a fan-out settles with at least one league answering a
\* non-success status, the call fails and the cache map is exactly what it
\* was: no entry is created or replaced, whatever the other leagues answered.
C2_FailedLeagueFailsCall ==
  [][\A c \in Calls : \A s \in Settlements[reqDate[c]] :
       (/\ pc[c] = "fetching" /\ pc'[c] = "done"
        /\ \E l \in Leagues : ~s.responses[l].ok
        /\ fetchEventsByDateResume(c, s.settle))
         => (outcome'[c].kind = "error" /\ cache' = cache)]_vars

\* a call failed over an expired entry, which is still there untouched,
\* and over an absent entry, which is still absent
C2_Witness ==
  /\ \E c \in Calls :
       /\ pc[c] = "done" /\ outcome[c].kind = "error" /\ issued[c] = Leagues
       /\ seen[c].state = "expired"
       /\ cache[reqDate[c]].present /\ cache[reqDate[c]].expiresAt <= now
  /\ \E c \in Calls :
       /\ pc[c] = "done" /\ outcome[c].kind = "error" /\ issued[c] = Leagues
       /\ seen[c].state = "absent" /\ ~cache[reqDate[c]].present

\* C3: a call returns the cached entry only if now < expiresAt; with the
\* entry absent or now >= expiresAt it issues a fetch to each of the 7
\* configured leagues, and what it returns is the concatenation of that
\* fan-out's league results, not the expired entry.
C3_ExpiredOrAbsentRefetches ==
  [][/\ \A c \in Calls, d \in Dates :
          (pc[c] # "fetching" /\ pc'[c] # "idle" /\ fetchEventsByDate(c, d)) =>
            IF cache[d].present /\ now < cache[d].expiresAt
            THEN outcome'[c] = Resolved(cache[d].data) /\ issued'[c] = {}
            ELSE /\ pc'[c] = "fetching" /\ outcome'[c].kind = "none"
                 /\ issued'[c] = Leagues /\ Cardinality(issued'[c]) = 7
     /\ \A c \in Calls : \A s \in Settlements[reqDate[c]] :
          (/\ pc[c] = "fetching" /\ pc'[c] = "done" /\ ~s.settle.rejected
           /\ fetchEventsByDateResume(c, s.settle))
            => /\ issued[c] = Leagues
               /\ outcome'[c] =
                    Resolved(Flat([l \in Leagues |-> fetchLeagueEvents(s.responses[l], l)]))]_vars

\* a call found the entry of an earlier call expired and returned the list
\* of its own fan-out, which differs from the earlier one
C3_Witness ==
  \E c \in Calls, c0 \in Calls :
    /\ seen[c].state = "expired" /\ pc[c] = "done" /\ outcome[c].kind = "ok"
    /\ issued[c] = Leagues
    /\ StoredFor(c0, reqDate[c]) /\ stored[c0] < stored[c] /\ stored[c0] <= now
    /\ outcome[c].data # outcome[c0].data
    /\ cache[reqDate[c]] = Entry(stored[c], outcome[c].data)

Users == {"A", "B"}
EventIds == {"e0", "e1"}

\* Omit<WatchedEvent, "id" | "createdAt" | "userId">
WatchedInput(eventId, leagueId, date, time, homeTeam, awayTeam, homeScore, awayScore) ==
  [eventId |-> eventId, leagueId |-> leagueId, leagueName |-> LeagueName(leagueId),
   date |-> date, time |-> time, homeTeam |-> homeTeam, awayTeam |-> awayTeam,
   homeScore |-> homeScore, awayScore |-> awayScore]

\* the snapshots a client can send of one fixture: before kick-off, after
\* the final whistle, and rescheduled under another competition
Snapshots(e) ==
  { WatchedInput(e, "4328", Monday, "20:00:00", "Arsenal", "Chelsea", NullNum, NullNum),
    WatchedInput(e, "4328", Monday, "20:00:00", "Arsenal", "Chelsea", 1, 0),
    WatchedInput(e, "4480", Sunday, "", "TBD", "Chelsea FC", 2, 2) }

WatchedInputs == UNION {Snapshots(e) : e \in EventIds}

\* a row of watched_events built from the VALUES list of the INSERT
WatchedRow(id, userId, input, createdAt) ==
  [id |-> id, userId |-> userId, eventId |-> input.eventId,
   leagueId |-> input.leagueId, leagueName |-> input.leagueName,
   date |-> DayOf(input.date), time |-> input.time,
   homeTeam |-> input.homeTeam, awayTeam |-> input.awayTeam,
   homeScore |-> input.homeScore, awayScore |-> input.awayScore,
   createdAt |-> createdAt]

\* ON CONFLICT (user_id, event_id): the UNIQUE constraint of the table
OnConflict(row, userId, eventId) == row.userId = userId /\ row.eventId = eventId

DoUpdateSet_KeepsDate(old, input) ==
  [WatchedRow(old.id, old.userId, input, old.createdAt) EXCEPT !.date = old.date]

DoUpdateSet_KeepsScores(old, input) ==
  [WatchedRow(old.id, old.userId, input, old.createdAt)
     EXCEPT !.homeScore = old.homeScore, !.awayScore = old.awayScore]

\* DO UPDATE SET league_id, league_name, date, time, home_team, away_team,
\* home_score, away_score = EXCLUDED.*; id, user_id, event_id and created_at stay
DoUpdateSet(old, input) == WatchedRow(old.id, old.userId, input, old.createdAt)

DeleteWhere_SwappedParams(row, userId, eventId) ==
  row.userId = eventId /\ row.eventId = userId

DeleteWhere_AnyUser(row, userId, eventId) == row.eventId = eventId

\* DELETE ... WHERE user_id = $1 AND event_id = $2
DeleteWhere(row, userId, eventId) == row.userId = userId /\ row.eventId = eventId

\* SELECT event_id ... WHERE user_id = $1 AND date = $2; the order of the
\* rows is unspecified and (user_id, event_id) is unique: a set of ids
listWatchedEventIds(userId, date) ==
  {row.eventId : row \in {r \in watched_events : r.userId = userId /\ r.date = DayOf(date)}}

\* text comparison of the time column, over the values the model stores
TimeRank(time) ==
  CASE time = "" -> 0
    [] time = "20:00:00" -> 1

\* ORDER BY date DESC, time DESC, id DESC
OrderedBefore(r1, r2) ==
  \/ r1.date > r2.date
  \/ r1.date = r2.date /\ TimeRank(r1.time) > TimeRank(r2.time)
  \/ r1.date = r2.date /\ r1.time = r2.time /\ r1.id > r2.id

RECURSIVE OrderBy(_)
OrderBy(rows) ==
  IF rows = {} THEN <<>>
  ELSE LET first == CHOOSE r \in rows : \A o \in rows \ {r} : OrderedBefore(r, o)
       IN  <<first>> \o OrderBy(rows \ {first})

\* SELECT ... FROM watched_events WHERE user_id = $1 ORDER BY ...
listWatchedEvents(userId) == OrderBy({r \in watched_events : r.userId = userId})

\* Date getters used by formatDate and startOfWeek, for a day number
\* (1970-01-01 was a Thursday; every day of the model is in January 1970 or
\* the last days of December 1969); the server's time zone is UTC
getDay(day) == (4 + day) % 7
getDate(day) == IF day >= 0 THEN day + 1 ELSE 32 + day

\* startOfWeek(date): back to Monday, midnight
startOfWeek(day) == LET diff == (getDay(day) + 6) % 7 IN day - diff

\* new Date(now.getFullYear(), now.getMonth(), 1)
startOfMonth(day) == day - (getDate(day) - 1)

\* formatDate(date): 'YYYY-MM-DD'
formatDate(day) == ISODate(day)

CountFrom(userId, from) ==
  Cardinality({r \in watched_events : r.userId = userId /\ r.date >= DayOf(from)})

\* getWatchedStats(userId): three COUNT(*) queries
getWatchedStats(userId) ==
  LET today == now \div MS_PER_DAY
      weekStart == formatDate(startOfWeek(today))
      monthStart == formatDate(startOfMonth(today))
  IN  [weekCount |-> CountFrom(userId, weekStart),
       monthCount |-> CountFrom(userId, monthStart),
       totalCount |-> Cardinality({r \in watched_events : r.userId = userId})]

\* ret: the value returned, with the history the properties refer to.
\* replaced: the upsert found a row with another snapshot and overwrote it.
\* undoes: the call right before this removeWatchedEvent was addWatchedEvent
\* for the same user and fixture, and this is the date it marked (else Null).
NoRet == [kind |-> "none"]
RetRow(row, replaced) == [kind |-> "row", row |-> row, replaced |-> replaced]
RetVoid(userId, eventId, undoes) ==
  [kind |-> "void", userId |-> userId, eventId |-> eventId, undoes |-> undoes]

\* the statement of addWatchedEvent at time t: INSERT ... ON CONFLICT ...
\* DO UPDATE ... RETURNING the row.  nextval is taken for the id default
\* before the conflict is detected, so the sequence advances on an update
\* too.
UpsertWatchedEvent(userId, input, t) ==
  LET id == watched_events_id_seq + 1
      conflict == {r \in watched_events : OnConflict(r, userId, input.eventId)}
      rows == IF conflict = {}
              THEN {WatchedRow(id, userId, input, t)}
              ELSE {DoUpdateSet(old, input) : old \in conflict}
  IN  [table |-> (watched_events \ conflict) \cup rows,
       seq |-> id,
       row |-> CHOOSE r \in rows : TRUE,
       replaced |-> conflict # {} /\ rows # conflict]

\* addWatchedEvent(userId, input)
addWatchedEvent(userId, input) ==
  /\ watched_events_id_seq < MaxSeq
  /\ LET result == UpsertWatchedEvent(userId, input, now)
     IN  /\ watched_events' = result.table
         /\ watched_events_id_seq' = result.seq
         /\ ret' = RetRow(result.row, result.replaced)
  /\ UNCHANGED <<now, ticks, user_preferences, puts, actor>>
  /\ UNCHANGED cacheVars
  /\ UNCHANGED appVars

\* the statement of removeWatchedEvent: the table it leaves
DeleteWatchedEvent(userId, eventId) ==
  {r \in watched_events : ~DeleteWhere(r, userId, eventId)}

\* removeWatchedEvent(userId, eventId): DELETE, returns nothing
removeWatchedEvent(userId, eventId) ==
  /\ watched_events' = DeleteWatchedEvent(userId, eventId)
  /\ ret' = RetVoid(userId, eventId,
                    IF ret.kind = "row" /\ ret.row.userId = userId /\ ret.row.eventId = eventId
                    THEN ISODate(ret.row.date) ELSE Null)
  /\ UNCHANGED <<now, ticks, watched_events_id_seq, user_preferences, puts, actor>>
  /\ UNCHANGED cacheVars
  /\ UNCHANGED appVars

(***************************************************************************)
(* Preference store (src/lib/db.ts over table user_preferences) and the     *)
(* PUT /api/preferences route.  A preferences document is a function from   *)
(* the top-level keys it has to their values (arrays of strings).           *)
(***************************************************************************)
EmptyDoc == [k \in {} |-> <<>>]

Undefined == "<undefined>"

\* request bodies: JSON values as request.json() yields them
JsonNull == [type |-> "null"]
JsonString == [type |-> "string"]
JsonObject(doc) == [type |-> "object", doc |-> doc]

Partials ==
  { "hiddenLeagues" :> <<"4339">>,
    "collapsedLeagues" :> <<"4328">>,
    ("hiddenLeagues" :> <<"4328", "4339">>) @@ ("leagueOrder" :> <<"4339", "4328">>) }

Bodies == {JsonObject(p) : p \in Partials} \cup {JsonNull}

\* JSON.stringify(preferences) read back as jsonb: members whose value is
\* undefined are left out, the order of the keys is not kept
ToJsonb_FillsDefaults(preferences) ==
  [k \in {"collapsedLeagues", "hiddenLeagues", "leagueOrder"} \cup DOMAIN preferences |->
     IF k \in DOMAIN preferences THEN preferences[k] ELSE <<>>]

ToJsonb(preferences) ==
  [k \in {key \in DOMAIN preferences : preferences[key] # Undefined} |-> preferences[k]]

JsonbConcat_AppendsArrays(left, right) ==
  [k \in DOMAIN left \cup DOMAIN right |->
     IF k \in DOMAIN left /\ k \in DOMAIN right THEN left[k] \o right[k]
     ELSE IF k \in DOMAIN right THEN right[k] ELSE left[k]]

JsonbConcat_RightOperandOnly(left, right) == right

JsonbConcat_LeftWins(left, right) ==
  [k \in DOMAIN left \cup DOMAIN right |-> IF k \in DOMAIN left THEN left[k] ELSE right[k]]

\* jsonb || jsonb of two objects: the union of the members, the right
\* operand's value for a key both have
JsonbConcat(left, right) ==
  [k \in DOMAIN left \cup DOMAIN right |-> IF k \in DOMAIN right THEN right[k] ELSE left[k]]

PreferencesRow(userId, preferences, updatedAt, createdAt) ==
  [userId |-> userId, preferences |-> preferences,
   updatedAt |-> updatedAt, createdAt |-> createdAt]

\* getUserPreferences(userId): rows[0]?.preferences ?? {}
getUserPreferences_DefaultsFilled(userId) ==
  LET rows == {r \in user_preferences : r.userId = userId}
  IN  IF rows = {}
      THEN [k \in {"collapsedLeagues", "hiddenLeagues", "leagueOrder"} |-> <<>>]
      ELSE (CHOOSE r \in rows : TRUE).preferences

getUserPreferences(userId) ==
  LET rows == {r \in user_preferences : r.userId = userId}
  IN  IF rows = {} THEN EmptyDoc ELSE (CHOOSE r \in rows : TRUE).preferences

\* the statement of updateUserPreferences at time t: INSERT (user_id,
\* preferences) ... ON CONFLICT (user_id) DO UPDATE SET preferences =
\* user_preferences.preferences || EXCLUDED.preferences, updated_at = now()
\* RETURNING the row
UpsertPreferences(userId, preferences, t) ==
  LET excluded == ToJsonb(preferences)
      conflict == {r \in user_preferences : r.userId = userId}
      rows == IF conflict = {}
              THEN {PreferencesRow(userId, excluded, t, t)}
              ELSE {PreferencesRow(old.userId, JsonbConcat(old.preferences, excluded),
                                   t, old.createdAt) : old \in conflict}
  IN  [table |-> (user_preferences \ conflict) \cup rows,
       record |-> CHOOSE r \in rows : TRUE]

RetRecord(record) == [kind |-> "record", record |-> record]

\* updateUserPreferences(userId, preferences), called with a session's
\* identity
updateUserPreferences(userId, preferences) ==
  /\ LET result == UpsertPreferences(userId, preferences, now)
     IN  /\ user_preferences' = result.table
         /\ ret' = RetRecord(result.record)
  /\ UNCHANGED <<now, ticks, watched_events, watched_events_id_seq, puts, actor>>
  /\ UNCHANGED cacheVars
  /\ UNCHANGED appVars

PutSlots == 1..MaxPuts

NoPut == [state |-> "none", userId |-> Null, body |-> JsonNull]

\* Response.json(...)
ErrorResponse(slot, status) == [kind |-> "response", slot |-> slot, status |-> status]
PreferencesResponse(slot, result) ==
  [kind |-> "response", slot |-> slot, status |-> 200,
   preferences |-> result.preferences, updatedAt |-> result.updatedAt]

\* a client sends PUT /api/preferences; userId is what getUserIdFromRequest
\* will make of its credentials (Null: none)
SendPut(r, userId, body) ==
  /\ puts[r].state = "none"
  /\ puts' = [puts EXCEPT ![r] = [state |-> "sent", userId |-> userId, body |-> body]]
  /\ UNCHANGED <<now, ticks, watched_events, watched_events_id_seq, user_preferences,
                 ret, actor>>
  /\ UNCHANGED cacheVars
  /\ UNCHANGED appVars

\* PUT(request): 401 without a user, 400 unless the body is a non-null
\* object, else updateUserPreferences and its preferences and updatedAt
PUT(r) ==
  /\ puts[r].state = "sent"
  /\ puts' = [puts EXCEPT ![r].state = "done"]
  /\ LET userId == puts[r].userId
         body == puts[r].body
     IN  IF userId = Null
         THEN /\ ret' = ErrorResponse(r, 401)
              /\ UNCHANGED user_preferences
         ELSE IF body.type # "object"
         THEN /\ ret' = ErrorResponse(r, 400)
              /\ UNCHANGED user_preferences
         ELSE LET result == UpsertPreferences(userId, body.doc, now)
              IN  /\ user_preferences' = result.table
                  /\ ret' = PreferencesResponse(r, result.record)
  /\ UNCHANGED <<now, ticks, watched_events, watched_events_id_seq, actor>>
  /\ UNCHANGED cacheVars
  /\ UNCHANGED appVars

(***************************************************************************)
(* GET /api/preferences                                                     *)
(***************************************************************************)
GetErrorResponse(status) == [kind |-> "getResponse", status |-> status]
GetPreferencesResponse(preferences) ==
  [kind |-> "getResponse", status |-> 200, preferences |-> preferences]

\* GET(request) of the preferences route: 401 without a user, else the
\* document getUserPreferences reads; a SELECT, it writes nothing
PreferencesGET(userId) ==
  /\ IF userId = Null
     THEN ret' = GetErrorResponse(401)
     ELSE ret' = GetPreferencesResponse(getUserPreferences(userId))
  /\ UNCHANGED <<now, ticks, watched_events, watched_events_id_seq, user_preferences,
                 puts, actor>>
  /\ UNCHANGED cacheVars
  /\ UNCHANGED appVars

(***************************************************************************)
(* /api/watched (route.ts) and /api/watched/list: the handlers as functions *)
(* of the session's user (Null: no session) and the request body, giving    *)
(* the status of the response and the table they leave.                     *)
(***************************************************************************)
\* /^\d{4}-\d{2}-\d{2}$/.test(value): the shape alone, over the strings of
\* the model
isValidDate(value) == value \in CacheKeys

RouteResult(status, table, seq) == [status |-> status, table |-> table, seq |-> seq]

\* POST(request): 401, 400 on a missing field or a date of another shape,
\* else addWatchedEvent and { record }
WatchedPOST(userId, body, t) ==
  IF userId = Null
  THEN RouteResult(401, watched_events, watched_events_id_seq)
  ELSE IF \/ ~Truthy(body.eventId) \/ ~Truthy(body.leagueId) \/ ~Truthy(body.leagueName)
          \/ ~Truthy(body.date) \/ ~Truthy(body.homeTeam) \/ ~Truthy(body.awayTeam)
  THEN RouteResult(400, watched_events, watched_events_id_seq)
  ELSE IF ~isValidDate(body.date)
  THEN RouteResult(400, watched_events, watched_events_id_seq)
  ELSE LET result == UpsertWatchedEvent(userId, body, t)
       IN  RouteResult(200, result.table, result.seq)

WatchedDELETE_NotFoundOnMiss(userId, body) ==
  IF userId = Null
  THEN RouteResult(401, watched_events, watched_events_id_seq)
  ELSE IF ~Truthy(body.eventId)
  THEN RouteResult(400, watched_events, watched_events_id_seq)
  ELSE IF DeleteWatchedEvent(userId, body.eventId) = watched_events
  THEN RouteResult(404, watched_events, watched_events_id_seq)
  ELSE RouteResult(200, DeleteWatchedEvent(userId, body.eventId), watched_events_id_seq)

\* DELETE(request): 401, 400 without an eventId, else removeWatchedEvent
\* and { ok: true }
WatchedDELETE(userId, body) ==
  IF userId = Null
  THEN RouteResult(401, watched_events, watched_events_id_seq)
  ELSE IF ~Truthy(body.eventId)
  THEN RouteResult(400, watched_events, watched_events_id_seq)
  ELSE RouteResult(200, DeleteWatchedEvent(userId, body.eventId), watched_events_id_seq)

(***************************************************************************)
(* Web client: the fixtures page (app/page.tsx, Home) and the watched page  *)
(* (app/watched/page.tsx).  A call of toggleWatched or unwatchEvent keeps   *)
(* the state values of the render it was made in; calls[e] holds them for   *)
(* the call made for fixture e while it awaits its fetch.  The browser's    *)
(* time zone is UTC.                                                        *)
(***************************************************************************)
ZeroStats == [weekCount |-> 0, monthCount |-> 0, totalCount |-> 0]

\* state: "idle" | "sent" (fetch called) | "answered" (fetch settled, the
\* continuation not yet run) | "failed" (history: the last call for the
\* fixture ended in the catch block, isWatched being what it had found)
\* status: of the response; 0 when fetch rejected
NoCall ==
  [state |-> "idle", method |-> "", body |-> [eventId |-> ""], isWatched |-> FALSE,
   prevWatchedIds |-> {}, prevStats |-> ZeroStats, prevEvents |-> <<>>, status |-> 0]

Failed(call) == [NoCall EXCEPT !.state = "failed", !.isWatched = call.isWatched]

\* the items of the leagues of a response for a date: each fixture as the
\* feed has it for the date
Shown(date) ==
  {event \in WatchedInputs : event.date = date /\ (date = Monday => event.homeScore = NullNum)}

\* loadEvents(date) from the request to the state updates with no other
\* load in flight, the request answered by GET /api/events for the
\* session's user: 401, a failure, or the leagues of the date with the
\* user's watchedIds of the date and stats.  The effect runs it when the
\* page is mounted and when selectedDate changes.  A load ends the history
\* kept of earlier calls.
loadEvents(date, userId, failed) ==
  /\ page = "fixtures"
  /\ loads = <<>>
  /\ ~loaded \/ date # selectedDate
  /\ selectedDate' = date
  /\ loaded' = TRUE
  /\ IF failed
     THEN /\ error' = "Failed to load matches for the day."
          /\ UNCHANGED <<leagues, watchedIds, stats>>
     ELSE IF userId = Null
     THEN /\ error' = "Sign in to see available matches."
          /\ leagues' = {}
          /\ watchedIds' = {}
          /\ UNCHANGED stats
     ELSE /\ leagues' = Shown(date)
          /\ watchedIds' = listWatchedEventIds(userId, date)
          /\ stats' = getWatchedStats(userId)
          /\ error' = Null
  /\ calls' = [e \in EventIds |->
                 IF calls[e].state = "failed" THEN NoCall ELSE calls[e]]
  /\ UNCHANGED <<page, shownEvents, pendingIds, loads>>
  /\ UNCHANGED <<now, ticks, cacheVars, storeVars, routeVars, mobileVars>>
  /\ UNCHANGED <<unitVars, authVars>>

\* the date input's onChange: setSelectedDate(date); the effect then calls
\* loadEvents(date), which runs up to its await of fetch
selectDate(date) ==
  /\ page = "fixtures" /\ loaded
  /\ date # selectedDate
  /\ Len(loads) < MaxLoads
  /\ selectedDate' = date
  /\ loads' = Append(loads, [date |-> date])
  /\ UNCHANGED <<page, loaded, watchedIds, stats, shownEvents, error, pendingIds, calls>>
  /\ UNCHANGED leagues
  /\ UNCHANGED <<now, ticks, cacheVars, storeVars, routeVars, mobileVars>>
  /\ UNCHANGED <<unitVars, authVars>>

\* the i-th loadEvents call in flight resumed after its await: its request
\* was answered by GET /api/events for the session's user, and the call
\* sets the state from the response whatever selectedDate is by now
loadEventsResume(i, userId, failed) ==
  /\ page = "fixtures"
  /\ i \in 1..Len(loads)
  /\ LET date == loads[i].date
     IN  IF failed
         THEN /\ error' = "Failed to load matches for the day."
              /\ UNCHANGED <<leagues, watchedIds, stats>>
         ELSE IF userId = Null
         THEN /\ error' = "Sign in to see available matches."
              /\ leagues' = {}
              /\ watchedIds' = {}
              /\ UNCHANGED stats
         ELSE /\ leagues' = Shown(date)
              /\ watchedIds' = listWatchedEventIds(userId, date)
              /\ stats' = getWatchedStats(userId)
              /\ error' = Null
  /\ loads' = [j \in 1..(Len(loads) - 1) |-> IF j < i THEN loads[j] ELSE loads[j + 1]]
  /\ calls' = [e \in EventIds |->
                 IF calls[e].state = "failed" THEN NoCall ELSE calls[e]]
  /\ UNCHANGED <<page, loaded, selectedDate, shownEvents, pendingIds>>
  /\ UNCHANGED <<now, ticks, cacheVars, storeVars, routeVars, mobileVars>>
  /\ UNCHANGED <<unitVars, authVars>>

\* toggleWatched(event) up to its await of fetch
toggleWatched(event) ==
  /\ page = "fixtures" /\ loaded
  /\ event \in leagues
  /\ event.eventId \notin pendingIds
  /\ LET isWatched == event.eventId \in watchedIds
         prevWatchedIds == watchedIds
         prevStats == stats
         nextWatchedIds == IF isWatched THEN prevWatchedIds \ {event.eventId}
                           ELSE prevWatchedIds \cup {event.eventId}
         delta == IF isWatched THEN -1 ELSE 1
         today == now \div MS_PER_DAY
         weekStart == formatDate(startOfWeek(today))
         monthStart == formatDate(startOfMonth(today))
         isWeek == DayOf(event.date) >= DayOf(weekStart)
         isMonth == DayOf(event.date) >= DayOf(monthStart)
     IN  /\ watchedIds' = nextWatchedIds
         /\ stats' = [weekCount |-> stats.weekCount + (IF isWeek THEN delta ELSE 0),
                      monthCount |-> stats.monthCount + (IF isMonth THEN delta ELSE 0),
                      totalCount |-> stats.totalCount + delta]
         /\ pendingIds' = pendingIds \cup {event.eventId}
         /\ calls' = [calls EXCEPT ![event.eventId] =
                        [state |-> "sent",
                         method |-> IF isWatched THEN "DELETE" ELSE "POST",
                         body |-> IF isWatched THEN [eventId |-> event.eventId] ELSE event,
                         isWatched |-> isWatched,
                         prevWatchedIds |-> prevWatchedIds, prevStats |-> prevStats,
                         prevEvents |-> <<>>, status |-> 0]]
  /\ UNCHANGED <<page, loaded, selectedDate, shownEvents, error>>
  /\ UNCHANGED <<now, ticks, cacheVars, storeVars, routeVars, mobileVars>>
  /\ UNCHANGED <<unitVars, loadVars, authVars>>

\* the request of the call for fixture e reaches the server, whose handler
\* runs for the session's user; the response reaches the browser, or is
\* lost and fetch rejects
WatchedRequestHandled(e, userId, delivered) ==
  /\ calls[e].state = "sent"
  /\ calls[e].method = "POST" => watched_events_id_seq < MaxSeq
  /\ LET result == IF calls[e].method = "POST"
                   THEN WatchedPOST(userId, calls[e].body, now)
                   ELSE WatchedDELETE(userId, calls[e].body)
     IN  /\ watched_events' = result.table
         /\ watched_events_id_seq' = result.seq
         /\ calls' = [calls EXCEPT ![e].state = "answered",
                                   ![e].status = IF delivered THEN result.status ELSE 0]
  /\ UNCHANGED <<page, loaded, selectedDate, watchedIds, stats, shownEvents, error, pendingIds>>
  /\ UNCHANGED <<user_preferences, puts, ret, actor>>
  /\ UNCHANGED <<now, ticks, cacheVars, routeVars, mobileVars>>
  /\ UNCHANGED <<unitVars, loadVars, authVars>>

\* fetch rejects (a network error) before the request reached the server
FetchRejects(e) ==
  /\ calls[e].state = "sent"
  /\ calls' = [calls EXCEPT ![e].state = "answered", ![e].status = 0]
  /\ UNCHANGED <<page, loaded, selectedDate, watchedIds, stats, shownEvents, error, pendingIds>>
  /\ UNCHANGED <<now, ticks, cacheVars, storeVars, routeVars, mobileVars>>
  /\ UNCHANGED <<unitVars, loadVars, authVars>>

\* res.ok
Ok(status) == status >= 200 /\ status <= 299

toggleWatchedResume_PendingUntilSuccess(e) ==
  /\ page = "fixtures"
  /\ calls[e].state = "answered"
  /\ IF Ok(calls[e].status)
     THEN /\ UNCHANGED <<watchedIds, stats, error>>
          /\ calls' = [calls EXCEPT ![e] = NoCall]
          /\ pendingIds' = pendingIds \ {e}
     ELSE /\ error' = IF calls[e].status = 0 THEN "Something went wrong."
                      ELSE "Failed to update watched matches."
          /\ watchedIds' = calls[e].prevWatchedIds
          /\ stats' = calls[e].prevStats
          /\ calls' = [calls EXCEPT ![e] = Failed(calls[e])]
          /\ UNCHANGED pendingIds
  /\ UNCHANGED <<page, loaded, selectedDate, shownEvents>>
  /\ UNCHANGED <<now, ticks, cacheVars, storeVars, routeVars, mobileVars>>
  /\ UNCHANGED <<unitVars, loadVars, authVars>>

\* toggleWatched resumed after the await: the throw on !res.ok, the catch
\* block and the finally block
toggleWatchedResume(e) ==
  /\ page = "fixtures"
  /\ calls[e].state = "answered"
  /\ IF Ok(calls[e].status)
     THEN /\ UNCHANGED <<watchedIds, stats, error>>
          /\ calls' = [calls EXCEPT ![e] = NoCall]
     ELSE /\ error' = IF calls[e].status = 0 THEN "Something went wrong."
                      ELSE "Failed to update watched matches."
          /\ watchedIds' = calls[e].prevWatchedIds
          /\ stats' = calls[e].prevStats
          /\ calls' = [calls EXCEPT ![e] = Failed(calls[e])]
  /\ pendingIds' = pendingIds \ {e}
  /\ UNCHANGED <<page, loaded, selectedDate, shownEvents>>
  /\ UNCHANGED <<now, ticks, cacheVars, storeVars, routeVars, mobileVars>>
  /\ UNCHANGED <<unitVars, loadVars, authVars>>

\* loadWatchedEvents() of the watched page, answered by GET
\* /api/watched/list
loadWatchedEvents(userId, failed) ==
  /\ page = "watched"
  /\ ~loaded
  /\ loaded' = TRUE
  /\ IF failed
     THEN /\ error' = "Failed to load watched matches."
          /\ UNCHANGED shownEvents
     ELSE IF userId = Null
     THEN /\ shownEvents' = <<>>
          /\ error' = "Sign in to see your watched matches."
     ELSE /\ shownEvents' = listWatchedEvents(userId)
          /\ error' = Null
  /\ calls' = [e \in EventIds |->
                 IF calls[e].state = "failed" THEN NoCall ELSE calls[e]]
  /\ UNCHANGED <<page, selectedDate, watchedIds, stats, pendingIds>>
  /\ UNCHANGED <<now, ticks, cacheVars, storeVars, routeVars, mobileVars>>
  /\ UNCHANGED <<unitVars, loadVars, authVars>>

\* events.filter((event) => event.eventId !== eventId)
WithoutEvent(rows, eventId) ==
  LET keep(row) == row.eventId # eventId IN SelectSeq(rows, keep)

\* unwatchEvent(eventId) up to its await of fetch
unwatchEvent(eventId) ==
  /\ page = "watched" /\ loaded
  /\ \E i \in 1..Len(shownEvents) : shownEvents[i].eventId = eventId
  /\ eventId \notin pendingIds
  /\ LET prevEvents == shownEvents
     IN  /\ shownEvents' = WithoutEvent(shownEvents, eventId)
         /\ pendingIds' = pendingIds \cup {eventId}
         /\ calls' = [calls EXCEPT ![eventId] =
                        [state |-> "sent", method |-> "DELETE",
                         body |-> [eventId |-> eventId], isWatched |-> TRUE,
                         prevWatchedIds |-> {}, prevStats |-> ZeroStats,
                         prevEvents |-> prevEvents, status |-> 0]]
  /\ UNCHANGED <<page, loaded, selectedDate, watchedIds, stats, error>>
  /\ UNCHANGED <<now, ticks, cacheVars, storeVars, routeVars, mobileVars>>
  /\ UNCHANGED <<unitVars, loadVars, authVars>>

\* unwatchEvent resumed after the await
unwatchEventResume(e) ==
  /\ page = "watched"
  /\ calls[e].state = "answered"
  /\ IF Ok(calls[e].status)
     THEN /\ UNCHANGED <<shownEvents, error>>
          /\ calls' = [calls EXCEPT ![e] = NoCall]
     ELSE /\ shownEvents' = calls[e].prevEvents
          /\ error' = IF calls[e].status = 0 THEN "Something went wrong."
                      ELSE "Failed to unwatch match."
          /\ calls' = [calls EXCEPT ![e] = Failed(calls[e])]
  /\ pendingIds' = pendingIds \ {e}
  /\ UNCHANGED <<page, loaded, selectedDate, watchedIds, stats>>
  /\ UNCHANGED <<now, ticks, cacheVars, storeVars, routeVars, mobileVars>>
  /\ UNCHANGED <<unitVars, loadVars, authVars>>

(***************************************************************************)
(* Mobile client preference cache (matchlog-mobile lib/preferences.ts and   *)
(* the fixtures screen app/(tabs)/index.tsx).  The mobile sources are not   *)
(* part of the tree; the protocol is modelled from the specification (4.5)  *)
(* and the Sync Flow / Preference Loading notes of the repository, against  *)
(* the preference store above.  One toggle per preference key can await its *)
(* update at a time.                                                        *)
(***************************************************************************)
ToggleKeys == {"collapsedLeagues", "hiddenLeagues"}

\* the league a toggle of the key is made for
ToggledLeague(k) == IF k = "collapsedLeagues" THEN "4328" ELSE "4339"

\* applyPreferences(prefs): the screen's state from a document, a missing
\* key being an empty list
applyPreferences(prefs) ==
  [k \in ToggleKeys |-> IF k \in DOMAIN prefs THEN prefs[k] ELSE <<>>]

\* the list with the league added, or removed if it is in it
Toggled(list, league) ==
  LET other(l) == l # league
  IN  IF \E i \in 1..Len(list) : list[i] = league
      THEN SelectSeq(list, other)
      ELSE Append(list, league)

\* the item under STORAGE_KEYS.PREFERENCES: none, or a document
NoItem == [stored |-> FALSE, doc |-> EmptyDoc]
Item(doc) == [stored |-> TRUE, doc |-> doc]

\* state: "idle" | "pendingSync" | "answered" (the request has settled, the
\* continuation not yet run) | "confirmed" | "rolledBack"
\* status: of the response, 0 when the request failed on the network
NoUpdate ==
  [state |-> "idle", partial |-> EmptyDoc, prev |-> applyPreferences(EmptyDoc),
   status |-> 0, response |-> EmptyDoc]

\* loadPreferences(): getCachedPreferences, then fetchPreferences, which
\* writes the document it got to the cache, or falls back to the cached
\* document when the request fails; the result is applied.  It runs when
\* the app starts: no toggle is awaiting its update.
loadPreferences(userId, failed) ==
  /\ \A k \in ToggleKeys : updates[k].state \in {"idle", "confirmed", "rolledBack"}
  /\ updates' = [k \in ToggleKeys |-> NoUpdate]
  /\ IF failed
     THEN /\ applied' = IF asyncStorage.stored THEN applyPreferences(asyncStorage.doc)
                        ELSE applied
          /\ UNCHANGED <<asyncStorage, confirmed>>
     ELSE LET fresh == getUserPreferences(userId)
          IN  /\ asyncStorage' = Item(fresh)
              /\ applied' = applyPreferences(fresh)
              /\ confirmed' = Item(fresh)
  /\ UNCHANGED <<now, ticks, cacheVars, storeVars, routeVars, clientVars>>
  /\ UNCHANGED <<unitVars, loadVars, authVars>>

\* toggleCollapsed / toggleHidden up to the await of updatePreferences:
\* the optimistic update of the screen's state and the PUT
togglePreference(k) ==
  /\ updates[k].state \in {"idle", "confirmed", "rolledBack"}
  /\ LET next == Toggled(applied[k], ToggledLeague(k))
     IN  /\ applied' = [applied EXCEPT ![k] = next]
         /\ updates' = [updates EXCEPT ![k] =
                          [state |-> "pendingSync", partial |-> k :> next,
                           prev |-> applied, status |-> 0, response |-> EmptyDoc]]
  /\ UNCHANGED <<asyncStorage, confirmed>>
  /\ UNCHANGED <<now, ticks, cacheVars, storeVars, routeVars, clientVars>>
  /\ UNCHANGED <<unitVars, loadVars, authVars>>

\* the PUT of the toggle of key k is handled by the route for the user the
\* server makes of its credentials; the response arrives or is lost
PreferencesUpdateHandled(k, userId, delivered) ==
  /\ updates[k].state = "pendingSync"
  /\ IF userId = Null
     THEN /\ updates' = [updates EXCEPT ![k].state = "answered",
                                        ![k].status = IF delivered THEN 401 ELSE 0]
          /\ UNCHANGED user_preferences
     ELSE LET result == UpsertPreferences(userId, updates[k].partial, now)
          IN  /\ user_preferences' = result.table
              /\ updates' = [updates EXCEPT
                               ![k].state = "answered",
                               ![k].status = IF delivered THEN 200 ELSE 0,
                               ![k].response = IF delivered THEN result.record.preferences
                                               ELSE EmptyDoc]
  /\ UNCHANGED <<applied, asyncStorage, confirmed>>
  /\ UNCHANGED <<watched_events, watched_events_id_seq, puts, ret, actor>>
  /\ UNCHANGED <<now, ticks, cacheVars, routeVars, clientVars>>
  /\ UNCHANGED <<unitVars, loadVars, authVars>>

\* the request fails before it reaches the server
PreferencesUpdateRejects(k) ==
  /\ updates[k].state = "pendingSync"
  /\ updates' = [updates EXCEPT ![k].state = "answered", ![k].status = 0]
  /\ UNCHANGED <<applied, asyncStorage, confirmed>>
  /\ UNCHANGED <<now, ticks, cacheVars, storeVars, routeVars, clientVars>>
  /\ UNCHANGED <<unitVars, loadVars, authVars>>

CacheAfterUpdate_WritesOptimistic(update, cached) ==
  IF Ok(update.status) THEN Item(update.response)
  ELSE Item(JsonbConcat(cached.doc, update.partial))

\* what updatePreferences leaves under STORAGE_KEYS.PREFERENCES: the merged
\* document of the response on success, else what was there
CacheAfterUpdate(update, cached) ==
  IF Ok(update.status) THEN Item(update.response) ELSE cached

\* the toggle resumed after the await: on success the response is written
\* to the cache; on failure the screen's state goes back to what it was
\* before the toggle and the error is surfaced
updatePreferencesResume(k) ==
  /\ updates[k].state = "answered"
  /\ asyncStorage' = CacheAfterUpdate(updates[k], asyncStorage)
  /\ IF Ok(updates[k].status)
     THEN /\ confirmed' = Item(updates[k].response)
          /\ updates' = [updates EXCEPT ![k] = [NoUpdate EXCEPT !.state = "confirmed"]]
          /\ UNCHANGED applied
     ELSE /\ applied' = updates[k].prev
          /\ updates' = [updates EXCEPT ![k] = [NoUpdate EXCEPT !.state = "rolledBack"]]
          /\ UNCHANGED confirmed
  /\ UNCHANGED <<now, ticks, cacheVars, storeVars, routeVars, clientVars>>
  /\ UNCHANGED <<unitVars, loadVars, authVars>>

(***************************************************************************)
(* GET /api/events (app/api/events/route.ts).  A request is its query       *)
(* parameters; the handler reads `date` alone.                              *)
(***************************************************************************)
\* searchParams.get("date"): Null when the parameter is missing
DateParams == {Monday, Month13, Null, "tomorrow"}

\* a leagueOrder parameter: none, or league ids in an order of the client's
\* choice
OrderParams == {<<>>, <<"4339", "4328">>}

Request(date, leagueOrder) == [date |-> date, leagueOrder |-> leagueOrder]

AwaitedBy(userId, request) == [userId |-> userId, request |-> request]

groupEvents_Reversed(events, leagueId) ==
  LET inLeague(event) == event.leagueId = leagueId
      kept == SelectSeq(events, inLeague)
  IN  [i \in 1..Len(kept) |-> kept[Len(kept) + 1 - i]]

\* grouped.get(league.id) ?? []: the events pushed for the league, in the
\* order of `events`
groupEvents(events, leagueId) ==
  LET inLeague(event) == event.leagueId = leagueId
  IN  SelectSeq(events, inLeague)

groupByLeague_OmitsEmptyGroups(events) ==
  LET all == [i \in 1..Len(FEATURED_LEAGUES) |->
                [id |-> FEATURED_LEAGUES[i], name |-> LeagueName(FEATURED_LEAGUES[i]),
                 events |-> groupEvents(events, FEATURED_LEAGUES[i])]]
      hasEvents(group) == group.events # <<>>
  IN  SelectSeq(all, hasEvents)

groupByLeague_LastLeagueFirst(events) ==
  [i \in 1..Len(FEATURED_LEAGUES) |->
     LET league == FEATURED_LEAGUES[Len(FEATURED_LEAGUES) + 1 - i]
     IN  [id |-> league, name |-> LeagueName(league), events |-> groupEvents(events, league)]]

\* groupByLeague(events): one group per league of FEATURED_LEAGUES, in its
\* order
groupByLeague(events) ==
  [i \in 1..Len(FEATURED_LEAGUES) |->
     [id |-> FEATURED_LEAGUES[i], name |-> LeagueName(FEATURED_LEAGUES[i]),
      events |-> groupEvents(events, FEATURED_LEAGUES[i])]]

\* Response.json({ error }, { status }), and the response to a handler
\* that threw
EventsError(status) == [kind |-> "eventsResponse", status |-> status]

\* the rest of GET once fetchEventsByDate has returned `events`.  The date
\* parameter of listWatchedEventIds is compared with a date column: a
\* string that names no day makes the query fail, and the handler with it.
EventsResponse(userId, request, events) ==
  IF request.date \notin Dates
  THEN EventsError(500)
  ELSE [kind |-> "eventsResponse", status |-> 200,
        date |-> request.date,
        leagues |-> groupByLeague(events),
        watchedIds |-> listWatchedEventIds(userId, request.date),
        stats |-> getWatchedStats(userId)]

\* GET(request) up to its first response or its await of the fan-out of
\* fetchEventsByDate; userId is what getUserIdFromRequest makes of the
\* request's credentials
EventsGET(c, userId, request) ==
  /\ pc[c] \in {"idle", "done"}
  /\ IF userId = Null
     THEN /\ ret' = EventsError(401)
          /\ UNCHANGED cacheVars
          /\ UNCHANGED gets
     ELSE IF request.date = Null \/ ~isValidDate(request.date)
     THEN /\ ret' = EventsError(400)
          /\ UNCHANGED cacheVars
          /\ UNCHANGED gets
     ELSE /\ fetchEventsByDateCall(c, request.date)
          /\ IF IsFresh(cache[request.date], now)
             THEN /\ ret' = EventsResponse(userId, request, cache[request.date].data)
                  /\ UNCHANGED gets
             ELSE /\ gets' = [gets EXCEPT ![c] = AwaitedBy(userId, request)]
                  /\ UNCHANGED ret
  /\ UNCHANGED <<watched_events, watched_events_id_seq, user_preferences, puts, actor>>
  /\ UNCHANGED <<now, ticks, matches, clientVars, mobileVars>>
  /\ UNCHANGED <<unitVars, loadVars, authVars>>

\* GET resumed when fetchEventsByDate returns or throws
EventsGETResume(c, settle) ==
  /\ gets[c] # NoGet
  /\ fetchEventsByDateReturn(c, settle)
  /\ gets' = [gets EXCEPT ![c] = NoGet]
  /\ ret' = IF settle.rejected
            THEN EventsError(500)
            ELSE EventsResponse(gets[c].userId, gets[c].request, settle.value)
  /\ UNCHANGED <<watched_events, watched_events_id_seq, user_preferences, puts, actor>>
  /\ UNCHANGED <<now, ticks, matches, clientVars, mobileVars>>
  /\ UNCHANGED <<unitVars, loadVars, authVars>>

\* the league groups the mobile fixtures screen renders of a response:
\* .filter((league) => !hiddenLeagues.has(league.id))
VisibleLeagues(groups, hiddenLeagues) ==
  LET visible(league) == \A i \in 1..Len(hiddenLeagues) : hiddenLeagues[i] # league.id
  IN  SelectSeq(groups, visible)

(***************************************************************************)
(* Table matches (src/lib/db.ts) and PUT /api/matches; the handlers of      *)
(* /api/watched as steps of the server.                                     *)
(***************************************************************************)
MatchRow(id, userId, date, time, league, homeTeam, awayTeam, homeScore, awayScore, createdAt) ==
  [id |-> id, userId |-> userId, date |-> date, time |-> time, league |-> league,
   homeTeam |-> homeTeam, awayTeam |-> awayTeam,
   homeScore |-> homeScore, awayScore |-> awayScore, createdAt |-> createdAt]

\* ids of the request bodies: 0 stands for a body without an id
MatchIds == {0, 1, 2, 3}

\* request.json() of PUT /api/matches: a well-formed body for each id, and
\* the bodies that differ from it in one field
MatchBody(id) ==
  [id |-> id, date |-> Monday, time |-> "20:00", league |-> " Serie A ",
   homeTeam |-> "Arsenal", awayTeam |-> "Chelsea", homeScore |-> "2", awayScore |-> "1"]

MatchBodies ==
  UNION { { MatchBody(id),
            [MatchBody(id) EXCEPT !.date = "tomorrow"],
            [MatchBody(id) EXCEPT !.time = "8pm"],
            [MatchBody(id) EXCEPT !.league = " "],
            [MatchBody(id) EXCEPT !.homeScore = "x"],
            [MatchBody(id) EXCEPT !.homeScore = Undefined] } : id \in MatchIds }

\* /^\d{2}:\d{2}$/.test(value)
isValidTime(value) == value \in {"20:00", "18:30"}

\* String.prototype.trim over the strings of the model
Trim(s) ==
  CASE s = " " -> ""
    [] s = " Serie A " -> "Serie A"
    [] OTHER -> s

\* Number.isInteger
IsInteger(n) == n # NaN

UpdateWhere_AnyUser(row, id, userId) == row.id = id

\* WHERE id = $8 AND user_id = $9
UpdateWhere(row, id, userId) == row.id = id /\ row.userId = userId

\* UPDATE matches SET ... : the row after the assignment
UpdateSet(row, input) ==
  [row EXCEPT !.date = DayOf(input.date), !.time = input.time, !.league = input.league,
              !.homeTeam = input.homeTeam, !.awayTeam = input.awayTeam,
              !.homeScore = input.homeScore, !.awayScore = input.awayScore]

\* updateMatch(userId, id, input): the table it leaves and result.rows, of
\* which it returns rows[0] ?? null
updateMatch(userId, id, input) ==
  LET hit == {r \in matches : UpdateWhere(r, id, userId)}
      rows == {UpdateSet(r, input) : r \in hit}
  IN  [table |-> (matches \ hit) \cup rows,
       rows |-> rows]

\* the response of a handler, with the user of its request and the id it
\* named; rowCount: the rows its statement touched (0 when it ran none)
RouteResponse(route, status, userId, target, rowCount) ==
  [kind |-> "response", route |-> route, status |-> status,
   userId |-> userId, target |-> target, rowCount |-> rowCount]

\* PUT(request) of /api/matches
MatchesPUT(userId, body) ==
  LET bad(status) == [status |-> status, table |-> matches, rowCount |-> 0]
      homeScore == Number(body.homeScore)
      awayScore == Number(body.awayScore)
      league == Trim(body.league)
      homeTeam == Trim(body.homeTeam)
      awayTeam == Trim(body.awayTeam)
  IN  IF userId = Null THEN bad(401)
      ELSE IF \/ body.id = 0 \/ ~Truthy(body.date) \/ ~Truthy(body.time)
              \/ ~Truthy(body.league) \/ ~Truthy(body.homeTeam) \/ ~Truthy(body.awayTeam)
              \/ body.homeScore = Undefined \/ body.awayScore = Undefined
      THEN bad(400)
      ELSE IF ~isValidDate(body.date) \/ ~isValidTime(body.time) THEN bad(400)
      ELSE IF ~IsInteger(homeScore) \/ ~IsInteger(awayScore) THEN bad(400)
      ELSE IF ~Truthy(league) \/ ~Truthy(homeTeam) \/ ~Truthy(awayTeam) THEN bad(400)
      ELSE LET result == updateMatch(userId, body.id,
                           [date |-> body.date, time |-> body.time, league |-> league,
                            homeTeam |-> homeTeam, awayTeam |-> awayTeam,
                            homeScore |-> homeScore, awayScore |-> awayScore])
           IN  IF result.rows = {} THEN bad(404)
               ELSE [status |-> 200, table |-> result.table, rowCount |-> 1]

\* one PUT /api/matches request, from its arrival to its response
PUTMatches(userId, body) ==
  /\ LET result == MatchesPUT(userId, body)
     IN  /\ matches' = result.table
         /\ ret' = RouteResponse("PUT /api/matches", result.status, userId, body.id,
                                 result.rowCount)
  /\ UNCHANGED <<now, ticks, gets>>
  /\ UNCHANGED <<watched_events, watched_events_id_seq, user_preferences, puts, actor>>
  /\ UNCHANGED cacheVars
  /\ UNCHANGED clientVars
  /\ UNCHANGED mobileVars
  /\ UNCHANGED <<unitVars, loadVars, authVars>>

\* request.json() of DELETE /api/watched
DeleteBodies == [eventId : EventIds \cup {""}]

\* request.json() of POST /api/watched: a fixture before kick-off, and a
\* body without an eventId
PostBodies ==
  { WatchedInput(e, "4328", Monday, "20:00:00", "Arsenal", "Chelsea", NullNum, NullNum) :
      e \in EventIds \cup {""} }

\* one POST /api/watched request, from its arrival to its response
POSTWatched(userId, body) ==
  /\ watched_events_id_seq < MaxSeq
  /\ LET result == WatchedPOST(userId, body, now)
     IN  /\ watched_events' = result.table
         /\ watched_events_id_seq' = result.seq
         /\ ret' = RouteResponse("POST /api/watched", result.status, userId, body.eventId,
                                 IF result.status = 200 THEN 1 ELSE 0)
  /\ UNCHANGED <<now, ticks, user_preferences, puts, actor>>
  /\ UNCHANGED cacheVars
  /\ UNCHANGED appVars

\* the POST body toggleWatched makes of a fixture of the leagues on display
WatchedPayload(event) ==
  [eventId |-> event.eventId, leagueId |-> event.leagueId, leagueName |-> event.leagueName,
   date |-> event.date, time |-> event.time,
   homeTeam |-> event.homeTeam, awayTeam |-> event.awayTeam,
   homeScore |-> event.homeScore, awayScore |-> event.awayScore]

\* the i-th fixture of the g-th league group of the response in `ret`
\* marked by userId: POST /api/watched with the body made of it
MarkFromResponse(userId, g, i) ==
  /\ ret.kind = "eventsResponse" /\ ret.status = 200
  /\ g \in 1..Len(ret.leagues)
  /\ i \in 1..Len(ret.leagues[g].events)
  /\ POSTWatched(userId, WatchedPayload(ret.leagues[g].events[i]))

\* one DELETE /api/watched request, from its arrival to its response
DELETEWatched(userId, body) ==
  /\ LET result == WatchedDELETE(userId, body)
     IN  /\ watched_events' = result.table
         /\ ret' = RouteResponse("DELETE /api/watched", result.status, userId, body.eventId,
                                 Cardinality(watched_events \ result.table))
  /\ UNCHANGED <<now, ticks, watched_events_id_seq, user_preferences, puts, actor>>
  /\ UNCHANGED cacheVars
  /\ UNCHANGED appVars

(***************************************************************************)
(* mobile-auth.ts and the session rows of POST /api/mobile/login.  Strings  *)
(* that the code takes apart are sequences of characters.                   *)
(***************************************************************************)
\* 30 days in the code; 20 days here, the integers of the model checker
\* ending before 25 days of milliseconds (no session a login creates
\* expires within the time the model covers, either way)
SESSION_TTL_MS == 20 * MS_PER_DAY

\* "Bearer "
BearerPrefix == <<"B", "e", "a", "r", "e", "r", " ">>

WhiteSpace == {" ", "\t"}

\* String.prototype.startsWith, slice and trim
startsWith(str, prefix) == Len(str) >= Len(prefix) /\ SubSeq(str, 1, Len(prefix)) = prefix

slice(str, start) == SubSeq(str, start + 1, Len(str))

RECURSIVE trimStart(_)
trimStart(str) ==
  IF str # <<>> /\ Head(str) \in WhiteSpace THEN trimStart(Tail(str)) ELSE str

RECURSIVE trimEnd(_)
trimEnd(str) ==
  IF str # <<>> /\ str[Len(str)] \in WhiteSpace
  THEN trimEnd(SubSeq(str, 1, Len(str) - 1)) ELSE str

trim(str) == trimEnd(trimStart(str))

\* crypto.randomUUID(): the session tokens logins can draw
SessionTokens == {<<"t", "1">>, <<"t", "2">>, <<"t", "3">>, <<"t", "4">>, <<"t", "5">>}

\* a token no login has drawn
ForgedToken == <<"t", "x">>

SessionRow(sessionToken, userId, expires) ==
  [sessionToken |-> sessionToken, userId |-> userId, expires |-> expires]

\* the rows earlier logins left: a session of A that expires one
\* TickSteps step after the start, and one of B that has expired
SeededSessions ==
  { SessionRow(<<"t", "1">>, "A", StartTime + CACHE_TTL_MS),
    SessionRow(<<"t", "2">>, "B", StartTime - 1) }

\* request.headers.get("authorization"): null, or the value of the header
\* without white space around it
NoHeader == [present |-> FALSE, value |-> <<>>]
Header(value) == [present |-> TRUE, value |-> value]

AuthHeaders ==
  {NoHeader, Header(<<"B", "e", "a", "r", "e", "r">>)}
    \cup {Header(BearerPrefix \o token) : token \in SessionTokens \cup {ForgedToken}}
    \cup {Header(BearerPrefix \o <<" ">> \o token) : token \in SessionTokens}

\* a request to a protected route: its Authorization header and the user
\* of the session its cookie names (getServerSession), Null without one
AuthRequests == [authorization : AuthHeaders, session : Users \cup {Null}]

\* SELECT "userId" FROM sessions WHERE "sessionToken" = $1 AND expires > now()
SelectSession(token, t) == {r \in sessions : r.sessionToken = token /\ r.expires > t}

\* getUserIdFromRequest(request) at time t
getUserIdFromRequest(request, t) ==
  LET authHeader == request.authorization
  IN  IF authHeader.present /\ startsWith(authHeader.value, BearerPrefix)
      THEN LET token == trim(slice(authHeader.value, Len(BearerPrefix)))
               rows == SelectSession(token, t)
           IN  IF token = <<>> THEN Null
               ELSE IF rows = {} THEN Null
               ELSE (CHOOSE r \in rows : TRUE).userId
      ELSE request.session

\* POST /api/mobile/login with an id token that verifies as userId's: the
\* row it inserts into sessions and its response (the rows of users and
\* accounts it writes are not part of this model)
MobileLogin(userId) ==
  /\ \E sessionToken \in SessionTokens :
       /\ \A r \in sessions : r.sessionToken # sessionToken
       /\ sessions' = sessions \cup {SessionRow(sessionToken, userId, now + SESSION_TTL_MS)}
       /\ ret' = RouteResponse("POST /api/mobile/login", 200, userId, sessionToken, 1)
  /\ UNCHANGED <<now, ticks, watched_events, watched_events_id_seq, user_preferences, puts,
                 actor>>
  /\ UNCHANGED cacheVars
  /\ UNCHANGED <<routeVars, clientVars, mobileVars, unitVars, loadVars>>

\* GET(request) of /api/preferences: 401 unless getUserIdFromRequest names
\* a user, else that user's preferences
GETPreferences(request) ==
  /\ LET userId == getUserIdFromRequest(request, now)
     IN  ret' = IF userId = Null
                THEN RouteResponse("GET /api/preferences", 401, Null, <<>>, 0)
                ELSE RouteResponse("GET /api/preferences", 200, userId, <<>>, 0)
  /\ UNCHANGED <<now, ticks, watched_events, watched_events_id_seq, user_preferences, puts,
                 actor>>
  /\ UNCHANGED cacheVars
  /\ UNCHANGED appVars

(***************************************************************************)
(* Initial contents of the database: empty, or with marks and documents     *)
(* that earlier sessions of both users left.                                *)
(***************************************************************************)
SeedTime == StartTime - CACHE_TTL_MS

EmptyStore ==
  [watched_events |-> {}, watched_events_id_seq |-> 0, user_preferences |-> {}]

SeededStore ==
  [watched_events |->
     { WatchedRow(1, "A", WatchedInput("e0", "4328", Monday, "20:00:00",
                                       "Arsenal", "Chelsea", NullNum, NullNum), SeedTime),
       WatchedRow(2, "B", WatchedInput("e0", "4480", Sunday, "", "TBD",
                                       "Chelsea FC", 2, 2), SeedTime) },
   watched_events_id_seq |-> 2,
   user_preferences |->
     { PreferencesRow("A", ("hiddenLeagues" :> <<"4328">>) @@ ("favoriteTeams" :> <<"Arsenal">>),
                      SeedTime, SeedTime),
       PreferencesRow("B", "collapsedLeagues" :> <<>>, SeedTime, SeedTime) }]

\* the seeded database after user A has marked fixture e1 as well
TwoMarksStore ==
  [SeededStore EXCEPT
     !.watched_events = @ \cup
        {WatchedRow(3, "A", WatchedInput("e1", "4328", Monday, "20:00:00",
                                         "Arsenal", "Chelsea", 1, 0), SeedTime)},
     !.watched_events_id_seq = 3]

OrderedStore ==
  [SeededStore EXCEPT
     !.user_preferences =
        { PreferencesRow("A", ("hiddenLeagues" :> <<"4328">>)
                              @@ ("collapsedLeagues" :> <<"4328", "4480">>)
                              @@ ("leagueOrder" :> <<"4480", "4328">>),
                         SeedTime, SeedTime),
          PreferencesRow("B", "leagueOrder" :> <<"4339", "4335">>, SeedTime, SeedTime) }]

InitStore(stores, actors) ==
  /\ \E s \in stores :
       /\ watched_events = s.watched_events
       /\ watched_events_id_seq = s.watched_events_id_seq
       /\ user_preferences = s.user_preferences
  /\ puts = [r \in PutSlots |-> NoPut]
  /\ ret = NoRet
  /\ actor \in actors

\* no request is being handled
InitRoutes ==
  /\ matches = {}
  /\ gets = [c \in Calls |-> NoGet]
  /\ sessions = SeededSessions

\* a browser that has mounted one of pages and not loaded it yet ("none":
\* no browser)
InitClient(pages) ==
  /\ page \in pages
  /\ loaded = FALSE
  /\ selectedDate = TodayISO(StartTime)
  /\ leagues = {}
  /\ loads = <<>>
  /\ watchedIds = {}
  /\ stats = ZeroStats
  /\ shownEvents = <<>>
  /\ error = Null
  /\ pendingIds = {}
  /\ calls = [e \in EventIds |-> NoCall]

\* a mobile app that has never run
InitMobile ==
  /\ applied = applyPreferences(EmptyDoc)
  /\ asyncStorage = NoItem
  /\ updates = [k \in ToggleKeys |-> NoUpdate]
  /\ confirmed = NoItem

\* no function is called on its own
InitUnit ==
  /\ raw = NoRecord
  /\ normalized = NotCalled

\* nothing but the library is running
InitApp == InitRoutes /\ InitClient({"none"}) /\ InitMobile /\ InitUnit

NextWatched ==
  \/ \E u \in Users, input \in WatchedInputs : addWatchedEvent(u, input)
  \/ \E u \in Users, e \in EventIds : removeWatchedEvent(u, e)
  \/ \E step \in TickSteps : Tick(step)

NextPrefs ==
  \/ \E r \in PutSlots, u \in Users \cup {Null}, body \in Bodies : SendPut(r, u, body)
  \/ \E r \in PutSlots : PUT(r)
  \/ \E u \in Users \cup {Null} : PreferencesGET(u)
  \/ \E step \in TickSteps : Tick(step)

\* one session: every call is made with the identity actor
NextSession ==
  \/ \E input \in WatchedInputs : addWatchedEvent(actor, input)
  \/ \E e \in EventIds : removeWatchedEvent(actor, e)
  \/ \E p \in Partials : updateUserPreferences(actor, p)
  \/ \E step \in TickSteps : Tick(step)

\* the fixture cache alone, over an empty database
InitCacheOnly == InitCache /\ InitStore({EmptyStore}, {"A"}) /\ InitApp

\* the stores of both users, empty or seeded
InitAnyStore == InitCache /\ InitStore({EmptyStore, SeededStore}, {"A"}) /\ InitApp

\* a session of either user over the seeded database
InitSession == InitCache /\ InitStore({SeededStore}, Users) /\ InitApp

Init == InitAnyStore

Next == NextCache \/ NextWatched \/ NextPrefs

Spec == Init /\ [][Next]_vars

SpecCache == InitCacheOnly /\ [][NextCache]_vars

\* the same with the scheduling of the event loop: a call whose awaited
\* Promise.all has settled is resumed.  Nothing makes TheSportsDB answer,
\* and the code sets no timer that would settle the promise without it.
SpecCacheFair ==
  /\ InitCacheOnly /\ [][NextCache]_vars
  /\ \A c \in Calls :
       WF_vars(\E settle \in SettleResults[reqDate[c]] : fetchEventsByDateResume(c, settle))

SpecWatched == InitAnyStore /\ [][NextWatched]_vars

SpecPrefs == InitAnyStore /\ [][NextPrefs]_vars

SpecSession == InitSession /\ [][NextSession]_vars

\* the web client of one signed-in user, on one page, over the seeded
\* database; its session may have expired on the server
NextWeb ==
  \/ \E d \in Dates, failed \in BOOLEAN : loadEvents(d, actor, failed)
  \/ \E event \in WatchedInputs : toggleWatched(event)
  \/ \E e \in EventIds, u \in {actor, Null}, delivered \in BOOLEAN :
       WatchedRequestHandled(e, u, delivered)
  \/ \E e \in EventIds : FetchRejects(e)
  \/ \E e \in EventIds : toggleWatchedResume(e)
  \/ \E failed \in BOOLEAN : loadWatchedEvents(actor, failed)
  \/ \E e \in EventIds : unwatchEvent(e)
  \/ \E e \in EventIds : unwatchEventResume(e)

\* GET /api/events requests of both users and of clients without
\* credentials, handled one after the other by the first call slot
GetCalls == {1}

NextEvents ==
  \/ \E c \in GetCalls, u \in Users \cup {Null}, d \in DateParams, o \in OrderParams :
       EventsGET(c, u, Request(d, o))
  \/ \E c \in GetCalls : TheSportsDbAnswers(c)
  \/ \E c \in GetCalls : \E settle \in SettleResults[reqDate[c]] : EventsGETResume(c, settle)
  \/ \E step \in TickSteps : Tick(step)

\* the seeded database, as it is or after user A has also collapsed a
\* league and put the leagues in an order of their own
InitEvents == InitCache /\ InitStore({SeededStore, OrderedStore}, {"A"}) /\ InitApp

SpecEvents == InitEvents /\ [][NextEvents]_vars

\* the mobile app of one signed-in user, over either database; the server
\* may no longer accept its credentials
NextMobile ==
  \/ \E failed \in BOOLEAN : loadPreferences(actor, failed)
  \/ \E k \in ToggleKeys : togglePreference(k)
  \/ \E k \in ToggleKeys, u \in {actor, Null}, delivered \in BOOLEAN :
       PreferencesUpdateHandled(k, u, delivered)
  \/ \E k \in ToggleKeys : PreferencesUpdateRejects(k)
  \/ \E k \in ToggleKeys : updatePreferencesResume(k)

SpecMobile == InitAnyStore /\ [][NextMobile]_vars

\* the fixtures page over the seeded database, or the watched page of a
\* user with two marks
InitWeb ==
  /\ InitCache /\ InitRoutes /\ InitMobile /\ InitUnit
  /\ \/ InitStore({SeededStore}, {"A"}) /\ InitClient({"fixtures"})
     \/ InitStore({TwoMarksStore}, {"A"}) /\ InitClient({"watched"})

SpecWeb == InitWeb /\ [][NextWeb]_vars

\* the fixtures page of user A over the seeded database, with toggles that
\* overlap and nothing else going wrong: every load succeeds and runs while
\* no toggle is awaiting its request, and a request that fails fails
\* cleanly (rejected by the server without a session, or never sent), so
\* that the store is as if the toggle had not been made
NextToggles ==
  \/ \E d \in Dates : pendingIds = {} /\ loadEvents(d, actor, FALSE)
  \/ \E event \in WatchedInputs : toggleWatched(event)
  \/ \E e \in EventIds, u \in {actor, Null} : WatchedRequestHandled(e, u, TRUE)
  \/ \E e \in EventIds : FetchRejects(e)
  \/ \E e \in EventIds : toggleWatchedResume(e)

InitToggles ==
  /\ InitCache /\ InitRoutes /\ InitMobile /\ InitUnit
  /\ InitStore({SeededStore}, {"A"}) /\ InitClient({"fixtures"})

SpecToggles == InitToggles /\ [][NextToggles]_vars

\* the fixtures page of user A over the seeded database, the user changing
\* the date while earlier loads are in flight and nothing else going
\* wrong: every load succeeds, toggles are made one at a time with no load
\* in flight, and the date is not changed while a toggle awaits its request
NextLoads ==
  \/ pendingIds = {} /\ loadEvents(selectedDate, actor, FALSE)
  \/ \E d \in Dates : pendingIds = {} /\ selectDate(d)
  \/ \E i \in 1..MaxLoads : loadEventsResume(i, actor, FALSE)
  \/ \E event \in WatchedInputs : pendingIds = {} /\ loads = <<>> /\ toggleWatched(event)
  \/ \E e \in EventIds, u \in {actor, Null} : WatchedRequestHandled(e, u, TRUE)
  \/ \E e \in EventIds : toggleWatchedResume(e)

InitLoads ==
  /\ InitCache /\ InitRoutes /\ InitMobile /\ InitUnit
  /\ InitStore({SeededStore}, {"A"}) /\ InitClient({"fixtures"})

SpecLoads == InitLoads /\ [][NextLoads]_vars

\* GET /api/events requests of user A for either date over the seeded
\* database, each followed by marks of the fixtures of its response, by A
\* or by B, and by unmarks
MaxGroupSize == 2

NextMark ==
  \/ \E c \in GetCalls, d \in Dates : EventsGET(c, actor, Request(d, <<>>))
  \/ \E c \in GetCalls : TheSportsDbAnswers(c)
  \/ \E c \in GetCalls : \E settle \in SettleResults[reqDate[c]] : EventsGETResume(c, settle)
  \/ \E u \in Users, g \in 1..Len(FEATURED_LEAGUES), i \in 1..MaxGroupSize :
       MarkFromResponse(u, g, i)
  \/ \E u \in Users, body \in DeleteBodies : DELETEWatched(u, body)

InitMark == InitCache /\ InitStore({SeededStore}, {"A"}) /\ InitApp

SpecMark == InitMark /\ [][NextMark]_vars

\* the matches both users have logged
SeededMatches ==
  { MatchRow(1, "A", 4, "20:00", "Premier League", "Arsenal", "Chelsea", 2, 1, SeedTime),
    MatchRow(2, "B", 3, "18:30", "La Liga", "Sevilla", "Betis", 0, 0, SeedTime) }

\* the server over the seeded database: the library calls and the requests
\* of both users and of clients without a session
NextRoutes ==
  \/ \E u \in Users \cup {Null}, body \in MatchBodies : PUTMatches(u, body)
  \/ \E u \in Users \cup {Null}, body \in PostBodies : POSTWatched(u, body)
  \/ \E u \in Users \cup {Null}, body \in DeleteBodies : DELETEWatched(u, body)
  \/ \E u \in Users, e \in EventIds : removeWatchedEvent(u, e)

InitServer ==
  /\ InitCache /\ InitStore({SeededStore}, {"A"})
  /\ matches = SeededMatches
  /\ gets = [c \in Calls |-> NoGet]
  /\ sessions = SeededSessions
  /\ InitClient({"none"}) /\ InitMobile /\ InitUnit

SpecRoutes == InitServer /\ [][NextRoutes]_vars

\* normalizeEvent on its own, for every record of RawRecords and the two
\* leagues a record can have been fetched for
NormalizeLeagues == {"4328", "4480"}

NextNormalize == \E league \in NormalizeLeagues : normalizeEventCall(league)

InitNormalize ==
  /\ InitCache /\ InitStore({EmptyStore}, {"A"})
  /\ InitRoutes /\ InitClient({"none"}) /\ InitMobile
  /\ raw \in RawRecords
  /\ normalized = NotCalled

SpecNormalize == InitNormalize /\ [][NextNormalize]_vars

\* requests to a protected route with every Authorization header and
\* cookie session, between logins of the mobile app, while time passes
NextAuth ==
  \/ \E u \in Users : MobileLogin(u)
  \/ \E request \in AuthRequests : GETPreferences(request)
  \/ \E step \in TickSteps : Tick(step)

InitAuth == InitCache /\ InitStore({SeededStore}, {"A"}) /\ InitApp

SpecAuth == InitAuth /\ [][NextAuth]_vars

(***************************************************************************)
(* Properties of the watched-event store                                    *)
(***************************************************************************)
\* C5: for all users u and fixtures f, addWatchedEvent(u, f) followed by
\* removeWatchedEvent(u, f.eventId) leaves listWatchedEventIds(u, f.date)
\* without f.eventId, whatever marks existed before.
C5_AddThenRemoveUnlists ==
  [][\A u \in Users, e \in EventIds :
       (/\ ret.kind = "row" /\ ret.row.userId = u /\ ret.row.eventId = e
        /\ removeWatchedEvent(u, e))
       => \A d \in Dates :
            d = ISODate(ret.row.date)
            => ret'.undoes = d /\ e \notin listWatchedEventIds(u, d)']_vars

\* a mark was added over other marks of the user and removed again
C5_Witness ==
  /\ ret.kind = "void" /\ ret.undoes # Null
  /\ ret.eventId \notin listWatchedEventIds(ret.userId, ret.undoes)
  /\ listWatchedEventIds(ret.userId, ret.undoes) # {}
  /\ \E r \in watched_events : r.userId # ret.userId /\ r.eventId = ret.eventId

SameSnapshot(row, input) ==
  /\ row.leagueId = input.leagueId /\ row.leagueName = input.leagueName
  /\ row.date = DayOf(input.date) /\ row.time = input.time
  /\ row.homeTeam = input.homeTeam /\ row.awayTeam = input.awayTeam
  /\ row.homeScore = input.homeScore /\ row.awayScore = input.awayScore

MarksOf(u, e) == {r \in watched_events : r.userId = u /\ r.eventId = e}

\* C6: for every user u and fixture id e the store holds at most one mark
\* for (u, e) after any sequence of mark/unmark operations; marking (u, e)
\* again with a different snapshot succeeds and leaves exactly one mark,
\* whose league, date, time, team and score fields are the second snapshot's.
C6_OneMarkSecondSnapshot ==
  [][/\ \A u \in Users, e \in EventIds : Cardinality(MarksOf(u, e)') <= 1
     /\ \A u \in Users, input \in WatchedInputs :
          (/\ \E old \in MarksOf(u, input.eventId) : ~SameSnapshot(old, input)
           /\ addWatchedEvent(u, input))
          => /\ ret'.kind = "row"
             /\ MarksOf(u, input.eventId)' = {ret'.row}
             /\ SameSnapshot(ret'.row, input)
             /\ \A old \in MarksOf(u, input.eventId) :
                  ret'.row.id = old.id /\ ret'.row.createdAt = old.createdAt]_vars

\* a mark made before the match was marked again with the final score
C6_Witness ==
  /\ ret.kind = "row" /\ ret.replaced
  /\ ret.row.id < watched_events_id_seq
  /\ ret.row.homeScore = 1 /\ ret.row.awayScore = 0
  /\ MarksOf(ret.row.userId, ret.row.eventId) = {ret.row}
  /\ Cardinality(watched_events) > 1

\* a watched-mark or preference operation performed with identity a (the
\* kind of value returned is tested first, to tell the operations apart
\* before their effect is compared)
PerformedAs(a) ==
  \/ ret'.kind = "row" /\ \E input \in WatchedInputs : addWatchedEvent(a, input)
  \/ ret'.kind = "void" /\ \E e \in EventIds : removeWatchedEvent(a, e)
  \/ ret'.kind = "record" /\ \E p \in Partials : updateUserPreferences(a, p)

\* C7: for any two distinct users A and B and any sequence of watched-mark
\* and preference operations performed with A's identity, the results of
\* listWatchedEventIds(B, d), listWatchedEvents(B), getWatchedStats(B) and
\* getUserPreferences(B) are unchanged, and no operation performed as A
\* returns a record owned by B.
C7_UsersIsolated ==
  [][\A a \in Users :
       (a = actor /\ now' = now /\ PerformedAs(a))
       => /\ \A b \in Users \ {a} :
               /\ \A d \in Dates : listWatchedEventIds(b, d)' = listWatchedEventIds(b, d)
               /\ listWatchedEvents(b)' = listWatchedEvents(b)
               /\ getWatchedStats(b)' = getWatchedStats(b)
               /\ getUserPreferences(b)' = getUserPreferences(b)
          /\ ret'.kind = "row" => ret'.row.userId = a
          /\ ret'.kind = "record" => ret'.record.userId = a
          /\ \A i \in 1..Len(listWatchedEvents(a)') : listWatchedEvents(a)'[i].userId = a]_vars

\* the session has added a mark, removed one and updated its preferences
\* next to the marks and the document of the other user
C7_Witness ==
  /\ \E b \in Users \ {actor} :
       /\ listWatchedEvents(b) # <<>>
       /\ getUserPreferences(b) # EmptyDoc
       /\ getWatchedStats(b).totalCount = 1
  /\ ret.kind = "record" /\ ret.record.userId = actor
  /\ ret.record.updatedAt > ret.record.createdAt
  /\ "e0" \notin {r.eventId : r \in {x \in watched_events : x.userId = actor}}
  /\ "e1" \in listWatchedEventIds(actor, Sunday)
  /\ watched_events_id_seq = 3

(***************************************************************************)
(* Properties of the preference store                                       *)
(***************************************************************************)
PrefKeys == {"collapsedLeagues", "hiddenLeagues", "leagueOrder", "favoriteTeams"}

\* PUT(r) reaches updateUserPreferences
Accepted(r) == puts[r].userId # Null /\ puts[r].body.type = "object"

\* every member of partial is a member of doc, with the same value
Contains(doc, partial) ==
  \A k \in DOMAIN partial : k \in DOMAIN doc /\ doc[k] = partial[k]

\* C8: updateUserPreferences(u, partial) is a shallow per-key merge: for
\* every top-level key present in partial the stored value becomes exactly
\* the value in partial (the whole array is replaced), and for every
\* top-level key absent from partial the stored value is unchanged.
C8_ShallowPerKeyMerge ==
  [][\A r \in PutSlots, u \in Users, p \in Partials :
       (/\ puts[r].state = "sent" /\ puts[r].userId = u /\ puts[r].body = JsonObject(p)
        /\ PUT(r))
       => /\ Contains(getUserPreferences(u)', p)
          /\ \A k \in PrefKeys \ DOMAIN p :
               /\ (k \in DOMAIN getUserPreferences(u)') = (k \in DOMAIN getUserPreferences(u))
               /\ k \in DOMAIN getUserPreferences(u)
                  => getUserPreferences(u)'[k] = getUserPreferences(u)[k]]_vars

\* the stored hiddenLeagues array was replaced, favoriteTeams was kept
C8_Witness ==
  /\ ret.kind = "response" /\ ret.status = 200
  /\ puts[ret.slot].userId = "A"
  /\ puts[ret.slot].body = JsonObject("hiddenLeagues" :> <<"4339">>)
  /\ getUserPreferences("A") =
       ("hiddenLeagues" :> <<"4339">>) @@ ("favoriteTeams" :> <<"Arsenal">>)

\* C9: for all partial updates p1 and p2 of the same user that touch
\* disjoint top-level keys, under every interleaving and either delivery
\* order of the two requests (also when the user has no stored document
\* yet), the final stored document contains both p1's and p2's values.
C9_DisjointUpdatesBothKept ==
  \A r1 \in PutSlots : \A r2 \in PutSlots \ {r1} :
    (/\ puts[r1].state = "done" /\ puts[r2].state = "done"
     /\ Accepted(r1) /\ Accepted(r2)
     /\ puts[r1].userId = puts[r2].userId
     /\ DOMAIN puts[r1].body.doc \cap DOMAIN puts[r2].body.doc = {}
     /\ \A r3 \in PutSlots \ {r1, r2} :
          ~(puts[r3].state = "done" /\ Accepted(r3) /\ puts[r3].userId = puts[r1].userId))
    => /\ Contains(getUserPreferences(puts[r1].userId), puts[r1].body.doc)
       /\ Contains(getUserPreferences(puts[r1].userId), puts[r2].body.doc)

\* two requests of a user who had no document, the one sent in slot 2
\* applied before the one sent in slot 1
C9_Witness ==
  /\ \A row \in user_preferences : row.createdAt >= StartTime
  /\ puts[1].state = "done" /\ puts[2].state = "done"
  /\ puts[1].userId = "B" /\ puts[2].userId = "B"
  /\ puts[1].body = JsonObject("hiddenLeagues" :> <<"4339">>)
  /\ puts[2].body = JsonObject("collapsedLeagues" :> <<"4328">>)
  /\ ret.kind = "response" /\ ret.slot = 1 /\ ret.status = 200
  /\ ret.preferences =
       ("hiddenLeagues" :> <<"4339">>) @@ ("collapsedLeagues" :> <<"4328">>)

\* C10: the preferences document returned by updatePreferences always has
\* all three keys collapsedLeagues, hiddenLeagues and leagueOrder, keys
\* never set being the empty list; for a user with no prior preferences,
\* updatePreferences(u, {hiddenLeagues: ["4339"]}) returns
\* {collapsedLeagues: [], hiddenLeagues: ["4339"], leagueOrder: []}.
C10_ResponseHasAllThreeKeys ==
  (ret.kind = "response" /\ ret.status = 200)
  => {"collapsedLeagues", "hiddenLeagues", "leagueOrder"} \subseteq DOMAIN ret.preferences

\* C10 as amended: the document returned is the stored document after the
\* merge; its keys are those stored before and those of the partial, and a
\* key never set is absent.  For a user with no prior preferences,
\* {hiddenLeagues: ["4339"]} returns {hiddenLeagues: ["4339"]}.
C10_ResponseIsStoredDocument ==
  [][\A r \in PutSlots, u \in Users, p \in Partials :
       (/\ puts[r].state = "sent" /\ puts[r].userId = u /\ puts[r].body = JsonObject(p)
        /\ PUT(r))
       => /\ ret'.status = 200
          /\ ret'.preferences = getUserPreferences(u)'
          /\ DOMAIN ret'.preferences = DOMAIN getUserPreferences(u) \cup DOMAIN p
          /\ ({row \in user_preferences : row.userId = u} = {}
                /\ p = ("hiddenLeagues" :> <<"4339">>))
             => ret'.preferences = ("hiddenLeagues" :> <<"4339">>)]_vars

\* the scenario's update, answered for a user without a stored document
C10_Witness ==
  /\ ret.kind = "response" /\ ret.status = 200
  /\ ret.preferences = ("hiddenLeagues" :> <<"4339">>)
  /\ ret.updatedAt = now
  /\ \E row \in user_preferences :
       row.userId = puts[ret.slot].userId /\ row.createdAt = row.updatedAt

HasRow(u) == \E row \in user_preferences : row.userId = u

\* C11: getUserPreferences(u) for an authenticated user with no stored
\* preference row never fails and returns the empty document; it creates no
\* row (the document is created only by the first update).
C11_NoRowReadsEmptyCreatesNothing ==
  [][\A u \in Users :
       /\ (~HasRow(u) /\ ret'.kind = "getResponse" /\ PreferencesGET(u))
          => /\ ret'.status = 200
             /\ ret'.preferences = EmptyDoc
             /\ user_preferences' = user_preferences
       /\ (~HasRow(u) /\ HasRow(u)')
          => \E r \in PutSlots : puts[r].userId = u /\ Accepted(r) /\ PUT(r)]_vars

\* a user without a row has read the empty document, still without a row
C11_Witness ==
  /\ ret = GetPreferencesResponse(EmptyDoc)
  /\ user_preferences = {}
  /\ \E r \in PutSlots : puts[r].state = "sent" /\ Accepted(r)

(***************************************************************************)
(* Properties of the web client                                             *)
(***************************************************************************)
\* the watched page lists fixture e
Listed(e) == \E i \in 1..Len(shownEvents) : shownEvents[i].eventId = e

\* C12: while the last toggle of a fixture is one whose store request
\* failed, the client shows the fixture as it was immediately before that
\* toggle: in watchedIds on the fixtures page exactly if the toggle had
\* found it there, and still listed on the watched page; it is never left
\* in a state the server did not confirm.
C12_FailedToggleIsUndone ==
  \A e \in EventIds :
    calls[e].state = "failed"
      => IF page = "fixtures" THEN (e \in watchedIds) = calls[e].isWatched
         ELSE Listed(e)

(***************************************************************************)
(* Properties of the mobile preference cache                                *)
(***************************************************************************)
\* C13: the local cache is empty, no response having been confirmed, or
\* holds the preferences document of the last response the client got to a
\* successful fetch or update; a step of the protocol that writes it is the
\* load that got a document or the resumption of a confirmed update, so an
\* optimistic toggle and a failed update leave it as it was.
C13_CacheHoldsConfirmedDocument ==
  /\ [](asyncStorage = confirmed)
  /\ [][asyncStorage' # asyncStorage
          => \/ loadPreferences(actor, FALSE)
             \/ \E k \in ToggleKeys :
                  /\ updates[k].state = "answered" /\ Ok(updates[k].status)
                  /\ asyncStorage' = Item(updates[k].response)
                  /\ updatePreferencesResume(k)]_vars

\* a toggle was applied on top of a cached document, its update failed
\* and was rolled back, and the cache still holds the confirmed document
C13_Witness ==
  /\ asyncStorage.stored /\ asyncStorage = confirmed
  /\ \E k \in ToggleKeys :
       /\ updates[k].state = "rolledBack"
       /\ applied[k] = applyPreferences(asyncStorage.doc)[k]
  /\ \E k \in ToggleKeys : updates[k].state = "confirmed"

(***************************************************************************)
(* Properties of GET /api/events                                            *)
(***************************************************************************)
\* this step the handler of call c answers the request of user u
Answers(c, u, request) ==
  /\ ret'.kind = "eventsResponse"
  /\ \/ gets[c] = NoGet /\ gets'[c] = NoGet /\ EventsGET(c, u, request)
     \/ /\ gets[c] = AwaitedBy(u, request)
        /\ \E settle \in SettleResults[reqDate[c]] : EventsGETResume(c, settle)

\* the value a user's stored preferences have for a key ([] when they
\* have none)
Stored(u, key) ==
  LET doc == getUserPreferences(u) IN IF key \in DOMAIN doc THEN doc[key] ELSE <<>>

Elements(list) == {list[i] : i \in 1..Len(list)}

Ids(groups) == [i \in 1..Len(groups) |-> groups[i].id]

\* C14 as stated: no league of the user's hiddenLeagues is among the
\* league groups GET /api/events answers with.
C14_HiddenLeaguesNotInResponse ==
  [][\A c \in GetCalls, u \in Users, d \in DateParams, o \in OrderParams :
       (Answers(c, u, Request(d, o)) /\ ret'.status = 200)
         => Elements(Ids(ret'.leagues)) \cap Elements(Stored(u, "hiddenLeagues")) = {}]_vars

\* C14: GET /api/events answers with a group for every configured league,
\* hidden, collapsed, reordered or not; the groups the mobile fixtures
\* screen renders of the response are those of the leagues that are not
\* in hiddenLeagues, whatever collapsedLeagues and leagueOrder hold.
C14_HiddenLeaguesFilteredByClient ==
  [][\A c \in GetCalls, u \in Users, d \in DateParams, o \in OrderParams :
       (Answers(c, u, Request(d, o)) /\ ret'.status = 200)
         => /\ Elements(Ids(ret'.leagues)) = Leagues
            /\ Elements(Ids(VisibleLeagues(ret'.leagues, Stored(u, "hiddenLeagues"))))
                 = Leagues \ Elements(Stored(u, "hiddenLeagues"))]_vars

\* user A, who hides league 4328, collapses leagues and has an order of
\* their own, got the fixtures of Monday: the group of 4328 is in the
\* response, with its fixtures
C14_Witness ==
  /\ ret.kind = "eventsResponse" /\ ret.status = 200
  /\ ret.watchedIds = {"e0"}
  /\ Stored("A", "hiddenLeagues") = <<"4328">>
  /\ Stored("A", "collapsedLeagues") # <<>> /\ Stored("A", "leagueOrder") # <<>>
  /\ \E i \in 1..Len(ret.leagues) : ret.leagues[i].id = "4328" /\ ret.leagues[i].events # <<>>
  /\ \A i \in 1..Len(VisibleLeagues(ret.leagues, Stored("A", "hiddenLeagues"))) :
       VisibleLeagues(ret.leagues, Stored("A", "hiddenLeagues"))[i].id # "4328"

\* the order a request asks for: its leagueOrder parameter, else the
\* user's stored leagueOrder, else the configuration's
ExpectedOrder(u, request) ==
  IF request.leagueOrder # <<>> THEN request.leagueOrder
  ELSE IF Stored(u, "leagueOrder") # <<>> THEN Stored(u, "leagueOrder")
  ELSE FEATURED_LEAGUES

\* the leagues of `order` that have a group come in the order of `order`
InOrder(ids, order) ==
  \A i \in 1..Len(order), j \in 1..Len(order) :
    i < j => \A m \in 1..Len(ids), n \in 1..Len(ids) :
               (ids[m] = order[i] /\ ids[n] = order[j]) => m < n

\* C15 as stated: the league groups come in the order of the request's
\* leagueOrder, else of the user's stored leagueOrder, else of
\* FEATURED_LEAGUES.
C15_GroupsInRequestedOrder ==
  [][\A c \in GetCalls, u \in Users, d \in DateParams, o \in OrderParams :
       (Answers(c, u, Request(d, o)) /\ ret'.status = 200)
         => InOrder(Ids(ret'.leagues), ExpectedOrder(u, Request(d, o)))]_vars

\* C15: the league groups GET /api/events answers with are always in the
\* static order of FEATURED_LEAGUES, whatever leagueOrder parameter the
\* request has and whatever leagueOrder the user has stored.
C15_GroupsInConfigurationOrder ==
  [][\A c \in GetCalls, u \in Users, d \in DateParams, o \in OrderParams :
       (Answers(c, u, Request(d, o)) /\ ret'.status = 200)
         => Ids(ret'.leagues) = FEATURED_LEAGUES]_vars

\* user A, whose stored leagueOrder puts 4480 before 4328, got a response
\* in which 4328 comes first
C15_Witness ==
  /\ ret.kind = "eventsResponse" /\ ret.status = 200
  /\ ret.watchedIds = {"e0"}
  /\ Stored("A", "leagueOrder") = <<"4480", "4328">>
  /\ ret.leagues[1].id = "4328" /\ ret.leagues[7].id = "4480"

\* lexical comparison of the kickoff times of the feed
KickoffRank(time) ==
  CASE time = "" -> 0
    [] time = "11:00:00" -> 1
    [] time = "12:30:00" -> 2
    [] time = "15:00:00" -> 3
    [] time = "20:45:00" -> 4

\* C16 as stated: within every league group the fixtures are in
\* non-decreasing order of kickoff time.
C16_GroupsSortedByKickoff ==
  [][\A c \in GetCalls, u \in Users, d \in DateParams, o \in OrderParams :
       (Answers(c, u, Request(d, o)) /\ ret'.status = 200)
         => \A g \in 1..Len(ret'.leagues) :
              \A i \in 1..Len(ret'.leagues[g].events), j \in 1..Len(ret'.leagues[g].events) :
                i < j => KickoffRank(ret'.leagues[g].events[i].time)
                           <= KickoffRank(ret'.leagues[g].events[j].time)]_vars

\* C16: within every league group the fixtures are in the order they have
\* in the list fetchEventsByDate returned (the order of the feed's
\* response for the league); they are not sorted by kickoff time.
C16_GroupsInFeedOrder ==
  [][\A c \in GetCalls, u \in Users, d \in DateParams, o \in OrderParams :
       (Answers(c, u, Request(d, o)) /\ ret'.status = 200)
         => \A g \in 1..Len(ret'.leagues) :
              LET inLeague(event) == event.leagueId = ret'.leagues[g].id
              IN  ret'.leagues[g].events = SelectSeq(outcome'[c].data, inLeague)]_vars

\* a response whose group of 4328 has the 15:00 fixture before the 12:30
\* one, as the feed had them
C16_Witness ==
  /\ ret.kind = "eventsResponse" /\ ret.status = 200
  /\ Len(ret.leagues[1].events) = 2
  /\ ret.leagues[1].events[1].time = "15:00:00"
  /\ ret.leagues[1].events[2].time = "12:30:00"

\* the string names a day of the calendar
IsCalendarDate(value) == value \in {ISODate(day) : day \in {-3, 0, 2, 3, 4, 5}}

\* C17: GET /api/events without a user answers 401 and does nothing else;
\* with a user and a date parameter that is missing or is not a calendar
\* date it answers 400, again without a fetch, a cache write or a query.
C17_RejectsBeforeAnyWork ==
  [][\A c \in GetCalls, u \in Users \cup {Null}, d \in DateParams, o \in OrderParams :
       EventsGET(c, u, Request(d, o))
         => /\ u = Null => (ret' = EventsError(401) /\ UNCHANGED <<cacheVars, gets>>)
            /\ (u # Null /\ ~IsCalendarDate(d))
                 => (ret' = EventsError(400) /\ UNCHANGED <<cacheVars, gets>>)]_vars

(***************************************************************************)
(* Properties of the request handlers                                       *)
(***************************************************************************)
\* the tables of the database
tables == <<watched_events, watched_events_id_seq, user_preferences, matches>>

\* C18: for every user u and fixture e that u has no mark for (never marked,
\* or unmarked before), removeWatchedEvent(u, e) returns without an error
\* and DELETE /api/watched for e answers 200, and both leave every table as
\* it was.
C18_UnmarkOfUnmarkedIsNoOp ==
  [][\A u \in Users, e \in EventIds :
       MarksOf(u, e) = {}
         => /\ removeWatchedEvent(u, e)
                 => (ret' = RetVoid(u, e, ret'.undoes) /\ UNCHANGED tables)
            /\ DELETEWatched(u, [eventId |-> e])
                 => (ret'.status = 200 /\ UNCHANGED tables)]_vars

\* user A, whose mark for e0 was removed earlier, has been answered 200 by
\* a DELETE for e0 that found no row, and user B, who never marked e1, has
\* no mark for it
C18_Witness ==
  /\ ret = RouteResponse("DELETE /api/watched", 200, "A", "e0", 0)
  /\ MarksOf("A", "e0") = {}
  /\ MarksOf("B", "e1") = {}

\* the step ends with the response of this handler to user u
AnswersTo(route, u) == ret'.kind = "response" /\ ret'.route = route /\ ret'.userId = u

\* user u has a match with this id
Owns(u, id) == \E r \in matches : r.id = id /\ r.userId = u

\* C19 (as claimed): every update or delete request of a signed-in user that
\* names a record that does not exist or is another user's -- a well-formed
\* PUT /api/matches, a DELETE /api/watched -- is answered with not-found
\* (404) and changes no table.
C19_MissingTargetIsNotFound ==
  [][/\ \A u \in Users, id \in MatchIds \ {0} :
          (AnswersTo("PUT /api/matches", u) /\ ~Owns(u, id) /\ PUTMatches(u, MatchBody(id)))
            => (ret'.status = 404 /\ UNCHANGED tables)
     /\ \A u \in Users, e \in EventIds :
          (AnswersTo("DELETE /api/watched", u) /\ MarksOf(u, e) = {}
             /\ DELETEWatched(u, [eventId |-> e]))
            => (ret'.status = 404 /\ UNCHANGED tables)]_vars

\* C19 (amended): a well-formed PUT /api/matches of a signed-in user whose
\* id names no match, or a match of another user, is answered 404 and
\* changes no table, and with any body such a request is answered 400 or
\* 404, never 200; DELETE /api/watched for a fixture the caller has no mark
\* for changes no table either but is answered 200, never 404.
C19_MissingMatchIsNotFound ==
  [][/\ \A u \in Users, body \in MatchBodies :
          (AnswersTo("PUT /api/matches", u) /\ body.id = ret'.target
             /\ ~Owns(u, body.id) /\ PUTMatches(u, body))
            => /\ ret'.status \in {400, 404}
               /\ body = MatchBody(body.id) /\ body.id # 0 => ret'.status = 404
               /\ UNCHANGED tables
     /\ \A u \in Users, e \in EventIds :
          (AnswersTo("DELETE /api/watched", u) /\ MarksOf(u, e) = {}
             /\ DELETEWatched(u, [eventId |-> e]))
            => (ret'.status # 404 /\ UNCHANGED tables)]_vars

\* user A has been answered 404 by a well-formed update of match 2, which
\* is user B's and is as it was logged
C19_Witness ==
  /\ ret = RouteResponse("PUT /api/matches", 404, "A", 2, 0)
  /\ Owns("B", 2)
  /\ matches = SeededMatches

(***************************************************************************)
(* Termination of the aggregation                                           *)
(***************************************************************************)
\* C20: every call of fetchEventsByDate that has started its fan-out
\* eventually completes, with a fixture list or with a failure, whether or
\* not the upstream answers.
C20_EveryCallCompletes ==
  \A c \in Calls : (pc[c] = "fetching") ~> (pc[c] = "done")

(***************************************************************************)
(* Properties of the fixture view                                           *)
(***************************************************************************)
\* the leagues that answered this fan-out with a non-success status
FailedLeagues(s) == {l \in Leagues : ~s.responses[l].ok}

\* C21: a league fetch whose response has a non-success status throws an
\* error with that status and returns no list; when a GET /api/events
\* resumes from a fan-out in which some league failed, the call has been
\* rejected with the status of a failed league, and the response is an
\* error, never a 200 with league groups.
C21_FailedFetchNeverLooksEmpty ==
  [][\A c \in GetCalls : \A s \in Settlements[reqDate[c]] :
       (gets[c] # NoGet /\ FailedLeagues(s) # {} /\ EventsGETResume(c, s.settle))
         => /\ \A l \in FailedLeagues(s) :
                 fetchLeagueEvents(s.responses[l], l) = Thrown(s.responses[l].status)
            /\ \E l \in FailedLeagues(s) : outcome'[c] = Rejected(s.responses[l].status)
            /\ ret' = EventsError(500)]_vars

\* a GET /api/events has been answered with an error after the fan-out was
\* rejected with the 503 of the Champions League fetch
C21_Witness ==
  /\ ret = EventsError(500)
  /\ \E c \in GetCalls :
       /\ pc[c] = "done" /\ outcome[c] = Rejected(503) /\ issued[c] = Leagues
       /\ ~cache[reqDate[c]].present

(***************************************************************************)
(* Properties of normalizeEvent                                             *)
(***************************************************************************)
\* a field the feed left out
Absent(field) == field = Null

\* the integer a decimal score string reports
ReportedInteger(score) ==
  CASE score = "0" -> 0
    [] score = "1" -> 1
    [] score = "2" -> 2

WholeFanOuts ==
  [d \in CacheKeys |->
     { LET upTo[i \in 0..Len(FEATURED_LEAGUES)] ==
             IF i = 0 THEN <<>>
             ELSE upTo[i - 1] \o fetchLeagueEvents(rs[FEATURED_LEAGUES[i]],
                                                   FEATURED_LEAGUES[i]).events
       IN  upTo[Len(FEATURED_LEAGUES)] :
         rs \in {v \in ResponseVectors(d) : \A l \in Leagues : v[l].ok} }]

\* C23: under every interleaving of concurrent fetchEventsByDate calls,
\* every entry of the cache for a date d holds the complete list of one
\* single successful fan-out for d; a step that changes the entry of d puts
\* such a list there whole and touches no other entry; and what a call
\* returns is such a list too, never a part or a mixture.
C23_EntriesAreWholeFanOuts ==
  /\ [](\A d \in CacheKeys : cache[d].present => cache[d].data \in WholeFanOuts[d])
  /\ [](\A c \in Calls : outcome[c].kind = "ok" => outcome[c].data \in WholeFanOuts[reqDate[c]])
  /\ [][\A d \in CacheKeys :
          cache'[d] # cache[d]
            => /\ cache'[d].present /\ cache'[d].data \in WholeFanOuts[d]
               /\ \A other \in CacheKeys \ {d} : cache'[other] = cache[other]]_vars

\* two calls for the same date were in flight together; the one that
\* finished first stored the earlier feed version, the other has replaced
\* the entry with the later one
C23_Witness ==
  /\ pc[1] = "done" /\ pc[2] = "done" /\ reqDate[1] = Monday /\ reqDate[2] = Monday
  /\ seen[1].state = "absent" /\ seen[2].state = "absent"
  /\ outcome[1].kind = "ok" /\ outcome[2].kind = "ok"
  /\ outcome[1].data # outcome[2].data
  /\ cache[Monday].data = outcome[2].data
  /\ Len(cache[Monday].data) > 1

(***************************************************************************)
(* Concurrent preference updates of one key                                 *)
(***************************************************************************)
\* C24: when two accepted PUT /api/preferences requests of the same user
\* that set the same top-level key to different values have both been
\* handled, in either order, the stored value of the key is the value of
\* one of the two, whole (not a combination, not the value stored before),
\* and it is the value of the request the store applied last.
C24_SameKeyLastWriteWins ==
  \A r1 \in PutSlots : \A r2 \in PutSlots \ {r1} :
    (/\ puts[r1].state = "done" /\ puts[r2].state = "done"
     /\ Accepted(r1) /\ Accepted(r2)
     /\ puts[r1].userId = puts[r2].userId
     /\ \A r3 \in PutSlots \ {r1, r2} :
          ~(puts[r3].state = "done" /\ Accepted(r3) /\ puts[r3].userId = puts[r1].userId))
    => \A k \in DOMAIN puts[r1].body.doc \cap DOMAIN puts[r2].body.doc :
         puts[r1].body.doc[k] # puts[r2].body.doc[k]
           => LET stored_k == getUserPreferences(puts[r1].userId)[k]
              IN  /\ stored_k \in {puts[r1].body.doc[k], puts[r2].body.doc[k]}
                  /\ (ret.kind = "response" /\ ret.status = 200 /\ ret.slot = r1)
                       => stored_k = puts[r1].body.doc[k]

\* user A, whose stored hiddenLeagues was ["4328"], sent ["4339"] in slot 1
\* and ["4328", "4339"] in slot 2; the store applied slot 2 first and slot 1
\* last, and holds ["4339"]
C24_Witness ==
  /\ \E row \in user_preferences : row.userId = "A" /\ row.createdAt = SeedTime
  /\ puts[1].state = "done" /\ puts[2].state = "done"
  /\ puts[1].userId = "A" /\ puts[2].userId = "A"
  /\ puts[1].body = JsonObject("hiddenLeagues" :> <<"4339">>)
  /\ puts[2].body = JsonObject(("hiddenLeagues" :> <<"4328", "4339">>)
                               @@ ("leagueOrder" :> <<"4339", "4328">>))
  /\ ret.kind = "response" /\ ret.status = 200 /\ ret.slot = 1
  /\ getUserPreferences("A")["hiddenLeagues"] = <<"4339">>

(***************************************************************************)
(* Overlapping toggles on the fixtures page                                 *)
(***************************************************************************)
\* a toggleWatched call is awaiting its request or its continuation
InFlight(e) == calls[e].state \in {"sent", "answered"}

\* C25: on the loaded fixtures page, whenever no toggleWatched request is
\* in flight, watchedIds holds exactly the fixtures of the selected date
\* the server holds a mark of the user for, however the toggles on
\* distinct fixtures overlapped and whichever of them failed.
C25_SettledClientAgreesWithServer ==
  (/\ page = "fixtures" /\ loaded
   /\ pendingIds = {} /\ \A e \in EventIds : ~InFlight(e))
  => watchedIds = listWatchedEventIds(actor, selectedDate)

(***************************************************************************)
(* Loads overtaking each other on the fixtures page                         *)
(***************************************************************************)
\* C26: on the fixtures page, once every loadEvents call has completed
\* (none of them with an error), the league groups and watchedIds on
\* display are those of the selected date, in whatever order the responses
\* of the loads arrived.
C26_SettledLoadsShowSelectedDate ==
  (/\ page = "fixtures" /\ loaded /\ loads = <<>>
   /\ pendingIds = {} /\ \A e \in EventIds : ~InFlight(e))
  => /\ leagues = Shown(selectedDate)
     /\ watchedIds = listWatchedEventIds(actor, selectedDate)

(***************************************************************************)
(* A mark made from a response is found under the date of the request       *)
(***************************************************************************)
\* the fixtures in the league groups of a response
ListedIn(response) ==
  UNION {Elements(response.leagues[g].events) : g \in 1..Len(response.leagues)}

C28_PendingIdsAreTheRequestsInFlight ==
  /\ [](page = "fixtures" => pendingIds = {e \in EventIds : InFlight(e)})
  /\ [][\A e \in EventIds :
         (calls'[e].state = "sent" /\ calls[e].state # "sent")
         => e \notin pendingIds /\ e \in pendingIds']_vars

\* the request for e0 has failed and e0 has left pendingIds, while the
\* request for e1, started before, is still in flight
C28_Witness ==
  /\ page = "fixtures"
  /\ calls["e0"].state = "failed" /\ "e0" \notin pendingIds
  /\ calls["e1"].state = "sent" /\ pendingIds = {"e1"}

(***************************************************************************)
(* Every aggregated fixture is in a league group                            *)
(***************************************************************************)
RECURSIVE SumOfSizes(_)
SumOfSizes(groups) ==
  IF groups = <<>> THEN 0 ELSE Len(groups[1].events) + SumOfSizes(Tail(groups))

\* C29: in every 200 response of GET /api/events each fixture of the list
\* fetchEventsByDate returned is in exactly one league group, so that the
\* sizes of the groups add up to the length of the list, whatever league
\* id the upstream record of the fixture carries.
C29_EveryFixtureIsInOneGroup ==
  [][\A c \in GetCalls, u \in Users, d \in DateParams, o \in OrderParams :
       (Answers(c, u, Request(d, o)) /\ ret'.status = 200)
         => /\ \A i \in 1..Len(outcome'[c].data) :
                 Cardinality({g \in 1..Len(ret'.leagues) :
                                outcome'[c].data[i] \in Elements(ret'.leagues[g].events)}) = 1
            /\ SumOfSizes(ret'.leagues) = Len(outcome'[c].data)]_vars

(***************************************************************************)
(* Bearer tokens                                                            *)
(***************************************************************************)
\* the request carries an Authorization header of the scheme Bearer
IsBearer(request) ==
  /\ request.authorization.present
  /\ LET value == request.authorization.value
     IN  /\ Len(value) >= 6
         /\ SubSeq(value, 1, 6) = <<"B", "e", "a", "r", "e", "r">>
         /\ Len(value) > 6 => value[7] \in WhiteSpace

\* the token of such a header: what follows the scheme, without the white
\* space
BearerToken(request) ==
  LET notSpace(ch) == ch \notin WhiteSpace
  IN  SelectSeq(SubSeq(request.authorization.value, 7, Len(request.authorization.value)),
                notSpace)

\* C30: a request with a Bearer header is answered as a user only if its
\* token is the sessionToken of a row of sessions of that user that expires
\* strictly after now; with an empty, an unknown or an expired token it is
\* answered 401, whatever session its cookie names.
C30_BearerDecidesAlone ==
  [][\A request \in AuthRequests :
       (GETPreferences(request) /\ IsBearer(request))
         => IF \E r \in sessions :
                 r.sessionToken = BearerToken(request) /\ r.expires > now
            THEN \E r \in sessions :
                   /\ r.sessionToken = BearerToken(request) /\ r.expires > now
                   /\ ret'.status = 200 /\ ret'.userId = r.userId
            ELSE ret'.status = 401]_vars

====
